---- MODULE Spec2Model ----
(***************************************************************************)
(* Orphaned-UPC audit, batched updater and progress relay of GlobalUPC     *)
(* (backend/mssql_helper.py, backend/main.py).                             *)
(*                                                                         *)
(* The module holds several specifications over one set of variables; a    *)
(* specification leaves the variables of the other components idle.       *)
(*   SpecChunk  - the chunk loop shared by the audit and the store diff    *)
(*   SpecAudit  - the orphan audit, cross-database and same-database       *)
(*   SpecUpdate - the batched updater and its batching wrapper             *)
(*   SpecRelay  - the progress relay between a worker and the event stream *)
(*   SpecDiff   - the cross-store catalog comparison                       *)
(*   SpecMatch  - the reconciliation matcher, by product id or description *)
(*   SpecLookup - the three runs that look keys up in a catalog            *)
(*   SpecUpdateStream - the update stream: relay consumer and updater      *)
(*   SpecAuditStream  - the audit stream: relay consumer and audit         *)
(*   SpecRerun  - two calls of the audit over the same databases           *)
(*   SpecUpdateGone - the updater on a request that names deleted rows     *)
(*   SpecStreams - either stream under the scheduling it relies on         *)
(***************************************************************************)
EXTENDS Integers, Sequences, FiniteSets, TLC

(***************************************************************************)
(* Program constants.                                                      *)
(***************************************************************************)
CHUNK_SIZE == 5000
MAX_PARAMS_PER_QUERY == 2000
\* BATCH_SIZE of update_with_batching_wrapper
UPDATE_BATCH_SIZE == 20
\* seconds without a forwarded message after which a keep-alive is due
HEARTBEAT_INTERVAL == 15
\* BATCH_SIZE of find_matches_by_product_id_sync and find_matches_by_description_sync
BATCH_SIZE == 500

(***************************************************************************)
(* Bounds of the model.                                                    *)
(***************************************************************************)
\* chunk sizes 1..MaxChunkSize are tried next to CHUNK_SIZE
MaxChunkSize == 4
\* row counts are taken around the multiples 0..MaxChunks of the chunk size
MaxChunks == 3
\* ... at a distance of at most Margin
Margin == 2
\* rows that the small detail tables of one audit hold together
MaxRowsTotal == 2
\* ... of one audit in same-database mode
SameDbRowsTotal == 1
\* ... and of one audit run behind an event stream
StreamRowsTotal == 1
\* rows of a large detail table beyond one full chunk
BigExtra == 1
\* queries that may fail in one audit
MaxFaults == 1
\* update lists hold around 0..MaxUpdateBatches full sub-batches
MaxUpdateBatches == 2
\* database errors that may happen in one run of the updater
MaxUpdateFaults == 1
\* products of a primary catalog given row by row
MaxProducts == 2
\* orphan records of a reconciliation request given record by record
MaxRecords == 2
\* batches of a long reconciliation request
MaxMatchBatches == 1
\* progress events one worker pushes at most
MaxEvents == 2
\* seconds on the clock of the relay
MaxTime == 31

VARIABLES
    \* chunk loop of one table scan
    chunk_size,      \* the chunk size in force (CHUNK_SIZE in the program)
    total_records,   \* result of the COUNT(*) query
    total_chunks,    \* number of chunks planned
    chunk_num,       \* loop variable of "for chunk_num in range(total_chunks)"
    windows,         \* the (start_row, end_row) parameters issued so far
    fetched,         \* the row numbers each issued window returned
    scan_pc          \* "idle", "count", "loop", "done"

chunkVars == <<chunk_size, total_records, total_chunks, chunk_num, windows,
               fetched, scan_pc>>

VARIABLES
    \* databases read by the audit
    target_params,    \* target_host, target_port, ... as the caller passed them
    is_cross_db,      \* a target connection was given (cross-database mode)
    source_db,        \* detail table name -> [exists, rows], as read so far
    target_catalog,   \* the ProductUPC values of the target's Items_tbl
    rows_left,        \* rows the tables not yet read may still hold
    faults_left,      \* query failures that may still happen
    \* _process_tables_cross_db
    audit_pc,         \* "idle", "connect", "table", "chunk", "probe",
                      \* "classify", "returned"
    table_idx,        \* position in the list of detail tables (1-based)
    a_total_records,
    a_total_chunks,
    a_chunk_num,
    chunk_rows,       \* rows returned by the chunk query
    chunk_upcs,       \* normalized UPCs of the chunk, in row order
    batch_start,      \* loop variable of the membership batches
    existing_upcs,    \* UPCs of the chunk found in the target so far
    table_orphans,
    orphaned_records,
    tables_checked,
    audit_events,     \* what progress_callback has been called with
    last_query,       \* [kind, params] of the latest IN (...) query
    audit_result      \* <<success, error, orphaned_records, tables_checked>>

auditVars == <<target_params, is_cross_db, source_db, target_catalog, rows_left, faults_left, audit_pc,
               table_idx, a_total_records, a_total_chunks, a_chunk_num,
               chunk_rows, chunk_upcs, batch_start, existing_upcs,
               table_orphans, orphaned_records, tables_checked, audit_events,
               last_query, audit_result>>

VARIABLES
    \* the updater
    updates,          \* the list handed to update_with_batching_wrapper
    detail_db,        \* <<table, key column, key>> -> ProductUPC of the row
    upd_faults_left,  \* database errors that may still happen
    raised,           \* positions in updates whose UPDATE raised pyodbc.Error
    failed_batches,   \* sub-batches whose connection-level operation failed
    upd_pc,           \* "idle", "batch", "rows", "returned"
    batch_num,        \* loop variable of the wrapper
    row_idx,          \* rows of the sub-batch already attempted
    results,          \* results of update_orphaned_upcs_sync for the sub-batch
    all_results,
    total_updated,
    total_failed,
    upd_events,       \* what progress_callback has been called with
    upd_result        \* <<success, error, all_results>>

updVars == <<updates, detail_db, upd_faults_left, raised, failed_batches,
             upd_pc, batch_num, row_idx, results, all_results, total_updated,
             total_failed, upd_events, upd_result>>

VARIABLES
    \* the progress relay
    pushed,           \* every event progress_callback was called with, in order
    progress_queue,   \* queue.Queue(): events pushed and not yet taken
    future_done,      \* future.done()
    worker_result,    \* what the worker function returned
    consumer_pc,      \* "check", "get", "yield", "empty", "await", "drain",
                      \* "drain_yield", "final", "closed"
    progress_data,    \* the event the consumer took and has not yet forwarded
    time_now,         \* time.time(), in seconds
    last_event_time,
    success,          \* the consumer's copy of the worker's outcome
    connected,        \* the caller still reads the stream
    sent,             \* the messages forwarded to the caller
    drained,          \* history: how many of them the drain loop forwarded
    last_forward_time,    \* history: when the latest of them was forwarded
    pushed_at_disconnect  \* history: Len(pushed) when the caller went away

relayVars == <<pushed, progress_queue, future_done, worker_result, consumer_pc,
               progress_data, time_now, last_event_time, success, connected, sent,
               drained, last_forward_time, pushed_at_disconnect>>

VARIABLES
    \* the cross-store comparison
    primary_items,        \* Items_tbl of the primary store, in ProductID order
    comparison_catalog,   \* the ProductUPC values of the comparison store
    category_ids,
    subcategory_ids,
    include_discontinued,
    d_faults_left,        \* queries that may still fail
    diff_pc,              \* "idle", "connect", "count", "chunk", "probe",
                          \* "classify", "returned"
    total_products,
    d_total_chunks,
    d_chunk_num,
    chunk_products,
    d_chunk_upcs,
    d_batch_start,
    d_existing_upcs,
    missing_products,
    total_checked,
    diff_events,          \* what progress_callback has been called with
    d_last_query,         \* [kind, params] of the latest IN (...) probe
    diff_result           \* <<success, error, missing_products, total_checked>>

diffVars == <<primary_items, comparison_catalog, category_ids, subcategory_ids,
              include_discontinued, d_faults_left, diff_pc, total_products,
              d_total_chunks, d_chunk_num, chunk_products, d_chunk_upcs,
              d_batch_start, d_existing_upcs, missing_products, total_checked,
              diff_events, d_last_query, diff_result>>

VARIABLES
    \* the reconciliation matcher
    match_type,           \* "product_id" or "description"
    m_orphaned_records,   \* the orphan records of the request
    items_tbl,            \* the rows of Items_tbl
    m_faults_left,        \* queries that may still fail
    match_pc,             \* "idle", "connect", "batch", "returned"
    m_batch_start,
    matches,
    match_events,         \* what progress_callback has been called with
    m_last_query,         \* [kind, params] of the latest IN (...) lookup
    match_result          \* <<success, error, matches>>

matchVars == <<match_type, m_orphaned_records, items_tbl, m_faults_left, match_pc,
               m_batch_start, matches, match_events, m_last_query, match_result>>

\* the caller of the audit: a second call over the same databases, and the
\* exclusion list and result message of the audit stream
VARIABLES
    run_no,          \* 1 in the first call of the audit, 2 in the second
    first_result,    \* what the first call returned
    first_events,    \* the progress events of the first call
    excluded_upcs,   \* the UPCs of the source store's exclusion list
    result_data      \* result_data of the 'complete' message, once sent

callerVars == <<run_no, first_result, first_events, excluded_upcs, result_data>>

vars == <<chunkVars, auditVars, updVars, relayVars, diffVars, matchVars, callerVars>>

\* what the actions of one component leave alone
chunkOthers == <<auditVars, updVars, relayVars, diffVars, matchVars, callerVars>>
auditOthers == <<chunkVars, updVars, relayVars, diffVars, matchVars, callerVars>>
updOthers == <<chunkVars, auditVars, relayVars, diffVars, matchVars, callerVars>>
relayOthers == <<chunkVars, auditVars, updVars, diffVars, matchVars, callerVars>>
diffOthers == <<chunkVars, auditVars, updVars, relayVars, matchVars, callerVars>>
matchOthers == <<chunkVars, auditVars, updVars, relayVars, diffVars, callerVars>>

Max(a, b) == IF a >= b THEN a ELSE b
Min(a, b) == IF a <= b THEN a ELSE b

(***************************************************************************)
(* Chunk planning: total_chunks = max(1, (n + c - 1) // c) and the window  *)
(* parameters start_row = chunk_num * c, end_row = start_row + c.          *)
(***************************************************************************)
TotalChunksFloor(n, c) == Max(1, n \div c)

TotalChunks(n, c) == Max(1, (n + c - 1) \div c)

StartRow(k, c) == k * c

EndRow(k, c) == k * c + c

\* WHERE n.row_num > ? AND n.row_num <= ? over the rows numbered 1..n
RowWindow(n, start_row, end_row) ==
    {r \in 1..n : r > start_row /\ r <= end_row}

(***************************************************************************)
(* SpecChunk: one table scan, for the row counts and chunk sizes below.    *)
(***************************************************************************)
ChunkSizes == (1..MaxChunkSize) \cup {CHUNK_SIZE}

RecordCounts(c) ==
    {n \in {k * c + d : k \in 0..MaxChunks, d \in (0 - Margin)..Margin} : n >= 0}

ChunkIdle ==
    /\ chunk_size = 0
    /\ total_records = 0
    /\ total_chunks = 0
    /\ chunk_num = 0
    /\ windows = <<>>
    /\ fetched = <<>>
    /\ scan_pc = "idle"

ChunkInit ==
    /\ chunk_size \in ChunkSizes
    /\ total_records = 0
    /\ total_chunks = 0
    /\ chunk_num = 0
    /\ windows = <<>>
    /\ fetched = <<>>
    /\ scan_pc = "count"

\* the COUNT(*) query; a table without eligible rows is complete at once
CountRecords ==
    /\ scan_pc = "count"
    /\ \E n \in RecordCounts(chunk_size) :
          /\ total_records' = n
          /\ IF n = 0
             THEN /\ total_chunks' = 0
                  /\ scan_pc' = "done"
             ELSE /\ total_chunks' = TotalChunks(n, chunk_size)
                  /\ scan_pc' = "loop"
    /\ UNCHANGED <<chunk_size, chunk_num, windows, fetched>>
    /\ UNCHANGED chunkOthers

\* one iteration of the chunk loop: issue the window, fetch its rows
ScanChunk ==
    /\ scan_pc = "loop"
    /\ chunk_num < total_chunks
    /\ LET start_row == StartRow(chunk_num, chunk_size)
           end_row   == EndRow(chunk_num, chunk_size)
       IN  /\ windows' = Append(windows, <<start_row, end_row>>)
           /\ fetched' = Append(fetched, RowWindow(total_records, start_row, end_row))
    /\ chunk_num' = chunk_num + 1
    /\ UNCHANGED <<chunk_size, total_records, total_chunks, scan_pc>>
    /\ UNCHANGED chunkOthers

\* the loop is exhausted
ScanDone ==
    /\ scan_pc = "loop"
    /\ chunk_num = total_chunks
    /\ scan_pc' = "done"
    /\ UNCHANGED <<chunk_size, total_records, total_chunks, chunk_num, windows,
                   fetched>>
    /\ UNCHANGED chunkOthers

ChunkNext == CountRecords \/ ScanChunk \/ ScanDone


(***************************************************************************)
(* Data of the audit.  A UPC is a string, modelled as a sequence of        *)
(* symbols in which Blank is a whitespace character; the database compares *)
(* strings by their stored value.                                          *)
(***************************************************************************)
Blank == 0
\* SQL NULL / Python None in a ProductUPC column
NullUPC == <<-1>>
\* None in a ProductID column
NoneId == -1
\* None in a description column
NoneText == "<None>"

Range(s) == {s[i] : i \in 1..Len(s)}

SetMax(S) == CHOOSE x \in S : \A y \in S : y <= x
SetMin(S) == CHOOSE x \in S : \A y \in S : x <= y

\* str.strip(): drop leading and trailing whitespace, keep inner whitespace
Strip(s) ==
    LET nb == {i \in 1..Len(s) : s[i] # Blank}
    IN  IF nb = {} THEN <<>> ELSE SubSeq(s, SetMin(nb), SetMax(nb))

\* Python truthiness of a value read from a ProductUPC column
Truthy(upc) == upc # NullUPC /\ upc # <<>>

\* normalized_upc = str(upc).strip() if upc else ''
NormalizedUpc(upc) == IF Truthy(upc) THEN Strip(upc) ELSE <<>>

\* the detail tables of _audit_orphaned_upcs_sync, in configuration order
DetailTables ==
    << [name |-> "QuotationsDetails_tbl",       pk |-> "LineID"],
       [name |-> "PurchaseOrdersDetails_tbl",   pk |-> "LineID"],
       [name |-> "InvoicesDetails_tbl",         pk |-> "LineID"],
       [name |-> "CreditMemosDetails_tbl",      pk |-> "LineID"],
       [name |-> "PurchasesReturnsDetails_tbl", pk |-> "LineID"],
       [name |-> "QuotationDetails",            pk |-> "id"] >>

ExcludedTables == {"QuotationDetails", "QuotationsDetails_tbl"}

\* a table filter that keeps the quotation tables
IsCrossDbTableAll(t) == t.name \notin {}

\* t["name"] not in excluded_tables
IsCrossDbTable(t) == t.name \notin ExcludedTables

\* cross_db_tables = [t for t in detail_tables if t["name"] not in excluded_tables]
CrossDbTables == SelectSeq(DetailTables, IsCrossDbTable)

TableNames == {DetailTables[i].name : i \in 1..Len(DetailTables)}

\* WHERE ProductUPC IS NOT NULL AND ProductUPC != ''
IsEligible(row) == row.upc # NullUPC /\ row.upc # <<>>

\* the numbered_records CTE: the eligible rows in primary-key order; the
\* rows of a table are kept in primary-key order
NumberedRecords(rows) == SelectSeq(rows, IsEligible)

\* SELECT COUNT(*) ... WHERE ProductUPC IS NOT NULL AND ProductUPC != ''
CountQuery(rows) == Len(NumberedRecords(rows))

\* the chunk query: WHERE n.row_num > start_row AND n.row_num <= end_row
ChunkQuery(rows, start_row, end_row) ==
    LET e  == NumberedRecords(rows)
        lo == Min(start_row, Len(e))
        hi == Min(end_row, Len(e))
    IN  [i \in 1..(hi - lo) |-> e[lo + i]]

\* chunk_upcs: the non-empty normalized UPCs of the chunk, in row order
NonEmpty(u) == u # <<>>

\* a collection that keeps the UPCs that are empty after normalization
ChunkUpcsUnfiltered(rows) ==
    [i \in 1..Len(rows) |-> NormalizedUpc(rows[i].upc)]

ChunkUpcs(rows) ==
    SelectSeq([i \in 1..Len(rows) |-> NormalizedUpc(rows[i].upc)], NonEmpty)

\* records_map[upc]: the dict keeps, for each normalized UPC, the details of
\* the last row of the chunk that carries it
RecordsMap(rows, upc) ==
    rows[SetMax({i \in 1..Len(rows) : NormalizedUpc(rows[i].upc) = upc})]

BatchEndUncapped(start, n) == n

\* upc_batch = chunk_upcs[batch_start:batch_end]
BatchEnd(start, n) == Min(start + MAX_PARAMS_PER_QUERY, n)

UpcBatchSkipFirst(upcs, start) ==
    SubSeq(upcs, start + 2, BatchEnd(start, Len(upcs)))

UpcBatch(upcs, start) == SubSeq(upcs, start + 1, BatchEnd(start, Len(upcs)))

\* SELECT ProductUPC FROM Items_tbl WHERE ProductUPC IN (...): the values of
\* the catalog that equal one of the parameters (NULL equals nothing)
TargetQuery(catalog, params) ==
    LET p == Range(params)
    IN  {t \in catalog : t # NullUPC /\ t \in p}

\* batch_results = {row[0].strip() if row[0] else '' for row in fetchall()}
BatchResults(fetched_upcs) ==
    {IF Truthy(t) THEN Strip(t) ELSE <<>> : t \in fetched_upcs}

\* "description": details["description"] if details["description"] else "Unknown"
DescriptionOrUnknown(d) == IF d = NoneText \/ d = "" THEN "Unknown" ELSE d

OrphanRecord(table_name, details, upc) ==
    [table_name  |-> table_name,
     primary_key |-> details.pk,
     upc         |-> upc,
     product_id  |-> details.product_id,
     description |-> DescriptionOrUnknown(details.description)]

\* the same-database chunk query: the rows of the window for which
\* LEFT JOIN Items_tbl i ON n.ProductUPC = i.ProductUPC finds no row
JoinQuery(rows, catalog, start_row, end_row) ==
    LET window == ChunkQuery(rows, start_row, end_row)
        Unmatched(row) == row.upc = NullUPC \/ row.upc \notin catalog
    IN  SelectSeq(window, Unmatched)

\* same-database mode: the record is built from the row as it was read
JoinOrphanRecord(table_name, row) ==
    [table_name  |-> table_name,
     primary_key |-> row.pk,
     upc         |-> row.upc,
     product_id  |-> row.product_id,
     description |-> DescriptionOrUnknown(row.description)]

\* Step 5: one orphan record per entry of chunk_upcs not in existing_upcs
IsOrphanUpc(u) == u \notin existing_upcs

ChunkOrphans(table_name) ==
    LET o == SelectSeq(chunk_upcs, IsOrphanUpc)
    IN  [i \in 1..Len(o) |-> OrphanRecord(table_name, RecordsMap(chunk_rows, o[i]), o[i])]

(***************************************************************************)
(* The databases the audit is run against.  A small table holds up to      *)
(* rows_left rows with any of the UPCs below; a large table holds one full *)
(* chunk and BigExtra rows more, all with UPCs of the target catalog       *)
(* except two neighbours, placed at a batch or a chunk boundary.           *)
(***************************************************************************)
UPCChoices == {NullUPC, <<>>, <<Blank>>, <<1>>, <<Blank, 1, Blank>>, <<2>>}

CatalogChoices == SUBSET {<<1>>, <<2>>}

FillerUPC(i) == <<100 + i>>

BigRowCount == CHUNK_SIZE + BigExtra

\* every 1000th filler is missing from the target catalog
FillerCatalog == {FillerUPC(i) : i \in {j \in 1..BigRowCount : j % 1000 # 0}}

MakeRow(i, upc) ==
    [pk          |-> 10 * i,
     product_id  |-> IF i % 2 = 0 THEN NoneId ELSE 500 + i,
     description |-> CASE i % 3 = 1 -> "Widget A"
                       [] i % 3 = 2 -> NoneText
                       [] OTHER     -> "",
     upc         |-> upc]

SmallTables(n) == {[i \in 1..n |-> MakeRow(i, u[i])] : u \in [1..n -> UPCChoices]}

BigPlaces == {MAX_PARAMS_PER_QUERY, CHUNK_SIZE}

BigTable(place, u1, u2) ==
    [i \in 1..BigRowCount |->
        MakeRow(i, IF i = place THEN u1
                   ELSE IF i = place + 1 THEN u2
                   ELSE FillerUPC(i))]

BigTables ==
    {BigTable(p, u1, u2) : p \in BigPlaces, u1 \in {<<1>>, <<2>>}, u2 \in {<<1>>, <<2>>}}

\* the catalog a large table is audited against
BigCatalog == FillerCatalog \cup {<<1>>}

IsBigCatalog == FillerUPC(1) \in target_catalog

\* result_data before the 'complete' message is sent
NoData == [orphaned_records |-> <<>>, total_orphaned |-> NoneId, tables_checked |-> NoneId]

CallerIdle ==
    /\ run_no = 1
    /\ first_result = <<>>
    /\ first_events = <<>>
    /\ excluded_upcs = {}
    /\ result_data = NoData

\* the target connection parameters of a call of the audit
AllSupplied ==
    [target_host     |-> "10.0.0.2",
     target_port     |-> 1433,
     target_database |-> "Store2",
     target_username |-> "sa",
     target_password |-> "secret"]

NoTarget ==
    [target_host     |-> NoneText,
     target_port     |-> NoneId,
     target_database |-> NoneText,
     target_username |-> NoneText,
     target_password |-> NoneText]

TargetChoices ==
    {AllSupplied, NoTarget,
     [AllSupplied EXCEPT !.target_password = NoneText],
     [NoTarget EXCEPT !.target_host = "10.0.0.2"]}

\* is_cross_db = all([target_host, target_port, target_database,
\*                    target_username, target_password])
IsCrossDb(t) ==
    /\ t.target_host \notin {NoneText, ""}
    /\ t.target_port \notin {NoneId, 0}
    /\ t.target_database \notin {NoneText, ""}
    /\ t.target_username \notin {NoneText, ""}
    /\ t.target_password \notin {NoneText, ""}

Unread == [exists |-> FALSE, rows |-> <<>>]

(***************************************************************************)
(* SpecAudit: _audit_orphaned_upcs_sync.  In cross-database mode it runs   *)
(* _process_tables_cross_db over the tables that are not excluded; in      *)
(* same-database mode it goes through all detail tables itself.            *)
(***************************************************************************)
AuditIdle ==
    /\ target_params = AllSupplied
    /\ is_cross_db = TRUE
    /\ source_db = [t \in TableNames |-> Unread]
    /\ target_catalog = {}
    /\ rows_left = 0
    /\ faults_left = 0
    /\ audit_pc = "idle"
    /\ table_idx = 0
    /\ a_total_records = 0
    /\ a_total_chunks = 0
    /\ a_chunk_num = 0
    /\ chunk_rows = <<>>
    /\ chunk_upcs = <<>>
    /\ batch_start = 0
    /\ existing_upcs = {}
    /\ table_orphans = <<>>
    /\ orphaned_records = <<>>
    /\ tables_checked = 0
    /\ audit_events = <<>>
    /\ last_query = [kind |-> "none", params |-> 0]
    /\ audit_result = <<>>

AuditInit ==
    /\ target_params \in TargetChoices
    /\ is_cross_db = IsCrossDb(target_params)
    /\ source_db = [t \in TableNames |-> Unread]
    /\ target_catalog \in CatalogChoices \cup {BigCatalog}
    /\ rows_left = IF is_cross_db THEN MaxRowsTotal
                   ELSE IF target_params = NoTarget THEN SameDbRowsTotal
                   ELSE 0
    /\ faults_left = MaxFaults
    /\ audit_pc = "connect"
    /\ table_idx = 0
    /\ a_total_records = 0
    /\ a_total_chunks = 0
    /\ a_chunk_num = 0
    /\ chunk_rows = <<>>
    /\ chunk_upcs = <<>>
    /\ batch_start = 0
    /\ existing_upcs = {}
    /\ table_orphans = <<>>
    /\ orphaned_records = <<>>
    /\ tables_checked = 0
    /\ audit_events = <<>>
    /\ last_query = [kind |-> "none", params |-> 0]
    /\ audit_result = <<>>

\* the tables the run goes through: cross_db_tables or detail_tables
AuditTables == IF is_cross_db THEN CrossDbTables ELSE DetailTables

CurrentTable == AuditTables[table_idx]

\* what a detail table may hold when the audit first reads it; a table that
\* does not exist counts as one row against rows_left.  A second call of
\* the audit finds the tables as the first call read them.
Absent == [exists |-> FALSE, rows |-> <<>>]

TableContents ==
    IF run_no = 2
    THEN {source_db[CurrentTable.name]}
    ELSE IF IsBigCatalog
    THEN IF table_idx = 1
         THEN {[exists |-> TRUE, rows |-> r] : r \in BigTables}
         ELSE {Absent}
    ELSE {[exists |-> TRUE, rows |-> r] :
             r \in UNION {SmallTables(n) : n \in 0..rows_left}}
         \cup (IF rows_left > 0 THEN {Absent} ELSE {})

ContentSize(content) == IF content.exists THEN Len(content.rows) ELSE 1

\* a handler that goes to the next table without telling
SkipTableSilently(events) ==
    /\ audit_events' = events
    /\ table_idx' = table_idx + 1
    /\ audit_pc' = "table"

\* except pyodbc.Error: emit table_skipped and continue with the next table
SkipTable(events) ==
    /\ audit_events' = Append(events,
           [status |-> "table_skipped", table_name |-> CurrentTable.name])
    /\ table_idx' = table_idx + 1
    /\ audit_pc' = "table"

\* a connection failure that is reported as an audit without findings
OpenConnectionsSwallowsError ==
    /\ audit_pc = "connect"
    /\ \/ /\ audit_pc' = "table"
          /\ table_idx' = 1
          /\ UNCHANGED <<audit_result, faults_left>>
       \/ /\ faults_left > 0
          /\ faults_left' = faults_left - 1
          /\ audit_pc' = "returned"
          /\ audit_result' = <<TRUE, "", <<>>, 0>>
          /\ UNCHANGED table_idx
    /\ UNCHANGED <<source_db, target_catalog, rows_left, a_total_records,
                   a_total_chunks, a_chunk_num, chunk_rows, chunk_upcs,
                   batch_start, existing_upcs, table_orphans, orphaned_records,
                   tables_checked, audit_events, last_query>>
    /\ UNCHANGED <<target_params, is_cross_db>>

\* pyodbc.connect of the source and of the target
OpenConnectionsStep ==
    /\ audit_pc = "connect"
    /\ \/ /\ audit_pc' = "table"
          /\ table_idx' = 1
          /\ UNCHANGED <<audit_result, faults_left>>
       \/ /\ faults_left > 0
          /\ faults_left' = faults_left - 1
          /\ audit_pc' = "returned"
          /\ audit_result' = <<FALSE, "connection failed", <<>>, 0>>
          /\ UNCHANGED table_idx
    /\ UNCHANGED <<source_db, target_catalog, rows_left, a_total_records,
                   a_total_chunks, a_chunk_num, chunk_rows, chunk_upcs,
                   batch_start, existing_upcs, table_orphans, orphaned_records,
                   tables_checked, audit_events, last_query>>
    /\ UNCHANGED <<target_params, is_cross_db>>

OpenConnections == OpenConnectionsStep /\ UNCHANGED auditOthers

\* start of one iteration of "for table in detail_tables": the
\* checking_table event, the count query and the chunk plan
TableBeginStep ==
    /\ audit_pc = "table"
    /\ table_idx <= Len(AuditTables)
    /\ \E content \in TableContents, fail \in BOOLEAN :
          LET name   == CurrentTable.name
              events == Append(audit_events,
                           [status |-> "checking_table", table_name |-> name])
              n      == CountQuery(content.rows)
          IN  /\ fail => faults_left > 0 /\ content.exists
              /\ faults_left' = IF fail THEN faults_left - 1 ELSE faults_left
              /\ source_db' = [source_db EXCEPT ![name] = content]
              /\ rows_left' = IF IsBigCatalog THEN 0
                              ELSE rows_left - ContentSize(content)
              /\ IF fail \/ ~content.exists
                 THEN /\ SkipTable(events)
                      /\ UNCHANGED <<a_total_records, a_total_chunks, a_chunk_num,
                                     table_orphans, tables_checked>>
                 ELSE IF n = 0
                 THEN /\ a_total_records' = 0
                      /\ tables_checked' = tables_checked + 1
                      /\ audit_events' = Append(events,
                            [status |-> "table_complete", table_name |-> name,
                             orphaned_count |-> 0])
                      /\ table_idx' = table_idx + 1
                      /\ audit_pc' = "table"
                      /\ UNCHANGED <<a_total_chunks, a_chunk_num, table_orphans>>
                 ELSE /\ a_total_records' = n
                      /\ a_total_chunks' = TotalChunks(n, CHUNK_SIZE)
                      /\ table_orphans' = <<>>
                      /\ a_chunk_num' = 0
                      /\ audit_pc' = "chunk"
                      /\ audit_events' = events
                      /\ UNCHANGED <<table_idx, tables_checked>>
    /\ UNCHANGED <<target_catalog, chunk_rows, chunk_upcs, batch_start,
                   existing_upcs, orphaned_records, last_query, audit_result>>
    /\ UNCHANGED <<target_params, is_cross_db>>

TableBegin == TableBeginStep /\ UNCHANGED auditOthers

\* the chunk query and the collection of the chunk's UPCs
ChunkFetchStep ==
    /\ is_cross_db
    /\ audit_pc = "chunk"
    /\ a_chunk_num < a_total_chunks
    /\ \/ /\ LET rows == ChunkQuery(source_db[CurrentTable.name].rows,
                                    StartRow(a_chunk_num, CHUNK_SIZE),
                                    EndRow(a_chunk_num, CHUNK_SIZE))
             IN  /\ chunk_rows' = rows
                 /\ chunk_upcs' = ChunkUpcs(rows)
                 /\ audit_pc' = IF ChunkUpcs(rows) # <<>> THEN "probe" ELSE "classify"
          /\ existing_upcs' = {}
          /\ batch_start' = 0
          /\ UNCHANGED <<faults_left, table_idx, audit_events>>
       \/ /\ faults_left > 0
          /\ faults_left' = faults_left - 1
          /\ SkipTable(audit_events)
          /\ UNCHANGED <<chunk_rows, chunk_upcs, existing_upcs, batch_start>>
    /\ UNCHANGED <<source_db, target_catalog, rows_left, a_total_records,
                   a_total_chunks, a_chunk_num, table_orphans, orphaned_records,
                   tables_checked, last_query, audit_result>>
    /\ UNCHANGED <<target_params, is_cross_db>>

ChunkFetch == ChunkFetchStep /\ UNCHANGED auditOthers

\* one iteration of "for batch_start in range(0, len(chunk_upcs), MAX_PARAMS_PER_QUERY)"
ProbeBatchStep ==
    /\ audit_pc = "probe"
    /\ batch_start < Len(chunk_upcs)
    /\ LET upc_batch == UpcBatch(chunk_upcs, batch_start)
       IN  /\ last_query' = [kind |-> "probe", params |-> Len(upc_batch)]
           /\ \/ /\ existing_upcs' = existing_upcs
                       \cup BatchResults(TargetQuery(target_catalog, upc_batch))
                 /\ batch_start' = batch_start + MAX_PARAMS_PER_QUERY
                 /\ audit_pc' = IF batch_start + MAX_PARAMS_PER_QUERY < Len(chunk_upcs)
                                THEN "probe" ELSE "classify"
                 /\ UNCHANGED <<faults_left, table_idx, audit_events>>
              \/ /\ faults_left > 0
                 /\ faults_left' = faults_left - 1
                 /\ SkipTable(audit_events)
                 /\ UNCHANGED <<existing_upcs, batch_start>>
    /\ UNCHANGED <<source_db, target_catalog, rows_left, a_total_records,
                   a_total_chunks, a_chunk_num, chunk_rows, chunk_upcs,
                   table_orphans, orphaned_records, tables_checked, audit_result>>
    /\ UNCHANGED <<target_params, is_cross_db>>

ProbeBatch == ProbeBatchStep /\ UNCHANGED auditOthers

\* a progress count that is not capped at the size of the table
RecordsCheckedUncapped(k, n) == (k + 1) * CHUNK_SIZE

\* records_checked = min((chunk_num + 1) * CHUNK_SIZE, total_records)
RecordsChecked(k, n) ==
    Min((k + 1) * CHUNK_SIZE, n)

\* Step 5 and the chunk_progress event
ClassifyChunkStep ==
    /\ audit_pc = "classify"
    /\ LET name    == CurrentTable.name
           orphans == ChunkOrphans(name)
       IN  /\ table_orphans' = table_orphans \o orphans
           /\ orphaned_records' = orphaned_records \o orphans
           /\ audit_events' = Append(audit_events,
                 [status           |-> "chunk_progress",
                  table_name       |-> name,
                  chunk            |-> a_chunk_num + 1,
                  total_chunks     |-> a_total_chunks,
                  records_checked  |-> RecordsChecked(a_chunk_num, a_total_records),
                  total_records    |-> a_total_records,
                  orphans_in_chunk |-> Len(orphans),
                  total_orphans    |-> Len(table_orphans) + Len(orphans)])
    /\ a_chunk_num' = a_chunk_num + 1
    /\ audit_pc' = "chunk"
    /\ UNCHANGED <<source_db, target_catalog, rows_left, faults_left, table_idx,
                   a_total_records, a_total_chunks, chunk_rows, chunk_upcs,
                   batch_start, existing_upcs, tables_checked, last_query,
                   audit_result>>
    /\ UNCHANGED <<target_params, is_cross_db>>

ClassifyChunk == ClassifyChunkStep /\ UNCHANGED auditOthers

\* same-database mode, one iteration of "for chunk_num in range(total_chunks)":
\* the chunk query LEFT JOINs Items_tbl and returns the rows without a match
ChunkJoinStep ==
    /\ ~is_cross_db
    /\ audit_pc = "chunk"
    /\ a_chunk_num < a_total_chunks
    /\ \/ /\ LET name    == CurrentTable.name
                 rows    == JoinQuery(source_db[name].rows, target_catalog,
                                      StartRow(a_chunk_num, CHUNK_SIZE),
                                      EndRow(a_chunk_num, CHUNK_SIZE))
                 orphans == [i \in 1..Len(rows) |-> JoinOrphanRecord(name, rows[i])]
             IN  /\ chunk_rows' = rows
                 /\ table_orphans' = table_orphans \o orphans
                 /\ orphaned_records' = orphaned_records \o orphans
                 /\ audit_events' = Append(audit_events,
                       [status           |-> "chunk_progress",
                        table_name       |-> name,
                        chunk            |-> a_chunk_num + 1,
                        total_chunks     |-> a_total_chunks,
                        records_checked  |-> RecordsChecked(a_chunk_num, a_total_records),
                        total_records    |-> a_total_records,
                        orphans_in_chunk |-> Len(rows),
                        total_orphans    |-> Len(table_orphans) + Len(orphans)])
          /\ a_chunk_num' = a_chunk_num + 1
          /\ UNCHANGED <<faults_left, table_idx, audit_pc>>
       \/ /\ faults_left > 0
          /\ faults_left' = faults_left - 1
          /\ SkipTable(audit_events)
          /\ UNCHANGED <<chunk_rows, table_orphans, orphaned_records, a_chunk_num>>
    /\ UNCHANGED target_params
    /\ UNCHANGED <<is_cross_db, source_db, target_catalog, rows_left,
                   a_total_records, a_total_chunks, chunk_upcs, batch_start,
                   existing_upcs, tables_checked, last_query, audit_result>>

ChunkJoin == ChunkJoinStep /\ UNCHANGED auditOthers

\* a table end that does not count the table
TableEndStepUncounted ==
    /\ audit_pc = "chunk"
    /\ a_chunk_num = a_total_chunks
    /\ audit_events' = Append(audit_events,
          [status |-> "table_complete", table_name |-> CurrentTable.name,
           orphaned_count |-> Len(table_orphans)])
    /\ table_idx' = table_idx + 1
    /\ audit_pc' = "table"
    /\ UNCHANGED <<source_db, target_catalog, rows_left, faults_left,
                   a_total_records, a_total_chunks, a_chunk_num, chunk_rows,
                   chunk_upcs, batch_start, existing_upcs, table_orphans,
                   orphaned_records, last_query, audit_result, tables_checked>>
    /\ UNCHANGED <<target_params, is_cross_db>>

\* after the last chunk: tables_checked += 1 and the table_complete event
TableEndStep ==
    /\ audit_pc = "chunk"
    /\ a_chunk_num = a_total_chunks
    /\ tables_checked' = tables_checked + 1
    /\ audit_events' = Append(audit_events,
          [status |-> "table_complete", table_name |-> CurrentTable.name,
           orphaned_count |-> Len(table_orphans)])
    /\ table_idx' = table_idx + 1
    /\ audit_pc' = "table"
    /\ UNCHANGED <<source_db, target_catalog, rows_left, faults_left,
                   a_total_records, a_total_chunks, a_chunk_num, chunk_rows,
                   chunk_upcs, batch_start, existing_upcs, table_orphans,
                   orphaned_records, last_query, audit_result>>
    /\ UNCHANGED <<target_params, is_cross_db>>

TableEnd == TableEndStep /\ UNCHANGED auditOthers

\* return True, None, orphaned_records, tables_checked
AuditReturnStep ==
    /\ audit_pc = "table"
    /\ table_idx > Len(AuditTables)
    /\ audit_result' = <<TRUE, "", orphaned_records, tables_checked>>
    /\ audit_pc' = "returned"
    /\ UNCHANGED <<source_db, target_catalog, rows_left, faults_left, table_idx,
                   a_total_records, a_total_chunks, a_chunk_num, chunk_rows,
                   chunk_upcs, batch_start, existing_upcs, table_orphans,
                   orphaned_records, tables_checked, audit_events, last_query>>
    /\ UNCHANGED <<target_params, is_cross_db>>

AuditReturn == AuditReturnStep /\ UNCHANGED auditOthers

AuditNext ==
    \/ OpenConnections
    \/ TableBegin
    \/ ChunkFetch
    \/ ProbeBatch
    \/ ClassifyChunk
    \/ ChunkJoin
    \/ TableEnd
    \/ AuditReturn

(***************************************************************************)
(* SpecUpdate: update_with_batching_wrapper, which runs                    *)
(* update_orphaned_upcs_sync on sub-batches of UPDATE_BATCH_SIZE updates.  *)
(***************************************************************************)
\* None in the updated_upc field of a result
NoneUPC == <<-1>>
\* None in the error field of a result
NoError == "<None>"

ConnectError == "connection failed"
RowError == "update failed"

\* the primary-key column of a table
\* a key choice that knows one table only
PkFieldLineId(table_name) ==
    IF table_name = "Items_tbl" THEN "ProductID" ELSE "LineID"

PkField(table_name) ==
    IF table_name = "Items_tbl" THEN "ProductID"
    ELSE IF table_name = "QuotationDetails" THEN "id"
    ELSE "LineID"

\* the tables an update may name: the six detail tables and Items_tbl
UpdateTables ==
    << "InvoicesDetails_tbl", "QuotationDetails", "CreditMemosDetails_tbl",
       "Items_tbl", "QuotationsDetails_tbl", "PurchaseOrdersDetails_tbl",
       "PurchasesReturnsDetails_tbl" >>

\* the i-th update of a request: each addresses a row of its own
MakeUpdate(i) ==
    [table_name   |-> UpdateTables[(i % Len(UpdateTables)) + 1],
     primary_key  |-> i,
     items_tbl_upc |-> <<1 + (i % 2)>>]

UpdateCounts ==
    {n \in {k * UPDATE_BATCH_SIZE + d : k \in 0..MaxUpdateBatches, d \in {-1, 0, 1}} :
        n >= 0}

\* the key column of a table: that of the audit's configuration for a
\* detail table, ProductID for Items_tbl
KeyColumn(table_name) ==
    IF table_name = "Items_tbl" THEN "ProductID"
    ELSE DetailTables[CHOOSE k \in 1..Len(DetailTables) :
                         DetailTables[k].name = table_name].pk

\* where the row an update names is stored
StoredKey(update) ==
    <<update.table_name, KeyColumn(update.table_name), update.primary_key>>

\* UPDATE {table_name} SET ProductUPC = ? WHERE {pk_field} = ?
RowKey(update) ==
    <<update.table_name, PkField(update.table_name), update.primary_key>>

OldUPC == <<9>>

UpdateIdle ==
    /\ updates = <<>>
    /\ detail_db = <<>>
    /\ upd_faults_left = 0
    /\ raised = {}
    /\ failed_batches = {}
    /\ upd_pc = "idle"
    /\ batch_num = 0
    /\ row_idx = 0
    /\ results = <<>>
    /\ all_results = <<>>
    /\ total_updated = 0
    /\ total_failed = 0
    /\ upd_events = <<>>
    /\ upd_result = <<>>

UpdateInit ==
    /\ \E n \in UpdateCounts : updates = [i \in 1..n |-> MakeUpdate(i)]
    /\ detail_db = [k \in {StoredKey(updates[i]) : i \in 1..Len(updates)} |-> OldUPC]
    /\ upd_faults_left = MaxUpdateFaults
    /\ raised = {}
    /\ failed_batches = {}
    /\ upd_pc = "batch"
    /\ batch_num = 0
    /\ row_idx = 0
    /\ results = <<>>
    /\ all_results = <<>>
    /\ total_updated = 0
    /\ total_failed = 0
    /\ upd_events = <<>>
    /\ upd_result = <<>>

\* total_batches = (total_updates + BATCH_SIZE - 1) // BATCH_SIZE
TotalBatches == (Len(updates) + UPDATE_BATCH_SIZE - 1) \div UPDATE_BATCH_SIZE

\* batch = updates[start_idx:end_idx]
StartIdx == batch_num * UPDATE_BATCH_SIZE
EndIdx == Min(StartIdx + UPDATE_BATCH_SIZE, Len(updates))
Batch == SubSeq(updates, StartIdx + 1, EndIdx)

CountWhere(seq, flag) == Cardinality({i \in 1..Len(seq) : seq[i].success = flag})

FailedResultKeepsUPC(update, error) ==
    [table_name  |-> update.table_name,
     primary_key |-> update.primary_key,
     success     |-> FALSE,
     updated_upc |-> update.items_tbl_upc,
     error       |-> error]

FailedResult(update, error) ==
    [table_name  |-> update.table_name,
     primary_key |-> update.primary_key,
     success     |-> FALSE,
     updated_upc |-> NoneUPC,
     error       |-> error]

SuccessResult(update) ==
    [table_name  |-> update.table_name,
     primary_key |-> update.primary_key,
     success     |-> TRUE,
     updated_upc |-> update.items_tbl_upc,
     error       |-> NoError]

BatchCompleteEvent(batch_updated, batch_failed, updated, failed) ==
    [status        |-> "batch_complete",
     batch_number  |-> batch_num + 1,
     total_batches |-> TotalBatches,
     batch_updated |-> batch_updated,
     batch_failed  |-> batch_failed,
     total_updated |-> updated,
     total_failed  |-> failed]

BatchFailedOnce(events, error) ==
    LET failed == total_failed + Len(Batch) * Len(Batch)
    IN  /\ all_results' = Append(all_results, FailedResult(Batch[1], error))
        /\ total_failed' = failed
        /\ failed_batches' = failed_batches \cup {batch_num + 1}
        /\ upd_events' = Append(events,
               BatchCompleteEvent(0, Len(Batch), total_updated, failed))
        /\ batch_num' = batch_num + 1
        /\ upd_pc' = "batch"
        /\ UNCHANGED total_updated

\* "if not success": every update of the sub-batch is recorded as failed;
\* total_failed += len(batch) sits inside the loop over the sub-batch
BatchFailed(events, error) ==
    LET failed == total_failed + Len(Batch) * Len(Batch)
    IN  /\ all_results' = all_results \o [i \in 1..Len(Batch) |-> FailedResult(Batch[i], error)]
        /\ total_failed' = failed
        /\ failed_batches' = failed_batches \cup {batch_num + 1}
        /\ upd_events' = Append(events,
               BatchCompleteEvent(0, Len(Batch), total_updated, failed))
        /\ batch_num' = batch_num + 1
        /\ upd_pc' = "batch"
        /\ UNCHANGED total_updated

\* start of one iteration of the wrapper: the updating_batch event and the
\* connection of update_orphaned_upcs_sync
BatchStartStep ==
    /\ upd_pc = "batch"
    /\ batch_num < TotalBatches
    /\ LET events == Append(upd_events,
                        [status        |-> "updating_batch",
                         batch_number  |-> batch_num + 1,
                         total_batches |-> TotalBatches,
                         batch_size    |-> Len(Batch)])
       IN  \/ /\ upd_pc' = "rows"
              /\ results' = <<>>
              /\ row_idx' = 0
              /\ upd_events' = events
              /\ UNCHANGED <<upd_faults_left, failed_batches, all_results,
                             total_updated, total_failed, batch_num>>
           \/ /\ upd_faults_left > 0
              /\ upd_faults_left' = upd_faults_left - 1
              /\ BatchFailed(events, ConnectError)
              /\ UNCHANGED <<results, row_idx>>
    /\ UNCHANGED <<updates, detail_db, raised, upd_result>>

BatchStart == BatchStartStep /\ UNCHANGED updOthers

\* one iteration of "for update in updates": the UPDATE statement and commit
RowUpdateStep ==
    /\ upd_pc = "rows"
    /\ row_idx < Len(Batch)
    /\ LET update == Batch[row_idx + 1]
       IN  \/ /\ detail_db' = [k \in DOMAIN detail_db |->
                                  IF k = RowKey(update) THEN update.items_tbl_upc
                                  ELSE detail_db[k]]
              /\ results' = Append(results, SuccessResult(update))
              /\ UNCHANGED <<upd_faults_left, raised>>
           \/ /\ upd_faults_left > 0
              /\ upd_faults_left' = upd_faults_left - 1
              /\ raised' = raised \cup {StartIdx + row_idx + 1}
              /\ results' = Append(results, FailedResult(update, RowError))
              /\ UNCHANGED detail_db
    /\ row_idx' = row_idx + 1
    /\ UNCHANGED <<updates, failed_batches, upd_pc, batch_num, all_results,
                   total_updated, total_failed, upd_events, upd_result>>

RowUpdate == RowUpdateStep /\ UNCHANGED updOthers

\* update_orphaned_upcs_sync closes the cursor and returns; the wrapper
\* adds the results and emits batch_complete
BatchFinishStep ==
    /\ upd_pc = "rows"
    /\ row_idx = Len(Batch)
    /\ \/ /\ all_results' = all_results \o results
          /\ total_updated' = total_updated + CountWhere(results, TRUE)
          /\ total_failed' = total_failed + CountWhere(results, FALSE)
          /\ upd_events' = Append(upd_events,
                BatchCompleteEvent(CountWhere(results, TRUE), CountWhere(results, FALSE),
                                   total_updated + CountWhere(results, TRUE),
                                   total_failed + CountWhere(results, FALSE)))
          /\ batch_num' = batch_num + 1
          /\ upd_pc' = "batch"
          /\ UNCHANGED <<upd_faults_left, failed_batches>>
       \/ /\ upd_faults_left > 0
          /\ upd_faults_left' = upd_faults_left - 1
          /\ BatchFailed(upd_events, ConnectError)
    /\ UNCHANGED <<updates, detail_db, raised, row_idx, results, upd_result>>

BatchFinish == BatchFinishStep /\ UNCHANGED updOthers

\* return True, None, all_results
WrapperReturnStep ==
    /\ upd_pc = "batch"
    /\ batch_num = TotalBatches
    /\ upd_result' = <<TRUE, NoError, all_results>>
    /\ upd_pc' = "returned"
    /\ UNCHANGED <<updates, detail_db, upd_faults_left, raised, failed_batches,
                   batch_num, row_idx, results, all_results, total_updated,
                   total_failed, upd_events>>

WrapperReturn == WrapperReturnStep /\ UNCHANGED updOthers

UpdateNext == BatchStart \/ RowUpdate \/ BatchFinish \/ WrapperReturn

(***************************************************************************)
(* SpecRelay: a worker thread that pushes progress events onto a queue and *)
(* the generator of the event stream that polls the queue.  The relay is   *)
(* the same in the audit, reconciliation, update and comparison streams.   *)
(***************************************************************************)
NoEvent == 0

\* the k-th event of a worker; events are told apart by their number
Event(k) == k

NoResult == [success |-> FALSE, error |-> "", summary |-> NoneId]

\* the workers catch every exception and return (success, error, ...)
WorkerResults ==
    {[success |-> TRUE, error |-> NoneText, summary |-> n] : n \in 0..MaxEvents}
    \cup {[success |-> FALSE, error |-> m, summary |-> 0] :
             m \in {"connection failed", NoneText}}

Message(type, event, text, summary) ==
    [type |-> type, event |-> event, message |-> text, summary |-> summary]

ProgressMessage(event) == Message("progress", event, "", NoneId)
PingMessage == Message("ping", NoEvent, "", NoneId)

\* error or 'Audit failed'
ErrorMessage(error) ==
    Message("error", NoEvent, IF error = NoneText THEN "failed" ELSE error, NoneId)

CompleteMessage(summary) == Message("complete", NoEvent, "", summary)

RelayIdle ==
    /\ pushed = <<>>
    /\ progress_queue = <<>>
    /\ future_done = FALSE
    /\ worker_result = NoResult
    /\ consumer_pc = "idle"
    /\ progress_data = NoEvent
    /\ time_now = 0
    /\ last_event_time = 0
    /\ success = FALSE
    /\ connected = FALSE
    /\ sent = <<>>
    /\ drained = 0
    /\ last_forward_time = 0
    /\ pushed_at_disconnect = NoneId

\* the queue is created, the worker is started, last_event_time = time.time()
RelayInit ==
    /\ pushed = <<>>
    /\ progress_queue = <<>>
    /\ future_done = FALSE
    /\ worker_result = NoResult
    /\ consumer_pc = "check"
    /\ progress_data = NoEvent
    /\ time_now = 0
    /\ last_event_time = 0
    /\ success = FALSE
    /\ connected = TRUE
    /\ sent = <<>>
    /\ drained = 0
    /\ last_forward_time = 0
    /\ pushed_at_disconnect = NoneId

\* progress_callback: progress_queue.put(data), on the worker thread
WorkerPush ==
    /\ consumer_pc # "idle"
    /\ ~future_done
    /\ Len(pushed) < MaxEvents
    /\ pushed' = Append(pushed, Event(Len(pushed) + 1))
    /\ progress_queue' = Append(progress_queue, Event(Len(pushed) + 1))
    /\ UNCHANGED <<future_done, worker_result, consumer_pc, progress_data,
                   time_now, last_event_time, success, connected, sent, drained,
                   last_forward_time>>
    /\ UNCHANGED pushed_at_disconnect
    /\ UNCHANGED relayOthers

\* the worker function returns
WorkerFinish ==
    /\ consumer_pc # "idle"
    /\ ~future_done
    /\ future_done' = TRUE
    /\ worker_result' \in WorkerResults
    /\ UNCHANGED <<pushed, progress_queue, consumer_pc, progress_data,
                   time_now, last_event_time, success, connected, sent, drained,
                   last_forward_time>>
    /\ UNCHANGED pushed_at_disconnect
    /\ UNCHANGED relayOthers

\* one second passes
Tick ==
    /\ consumer_pc \notin {"idle", "closed"}
    /\ time_now < MaxTime
    /\ time_now' = time_now + 1
    /\ UNCHANGED <<pushed, progress_queue, future_done, worker_result,
                   consumer_pc, progress_data, last_event_time, success,
                   connected, sent, drained,
                   last_forward_time>>
    /\ UNCHANGED pushed_at_disconnect
    /\ UNCHANGED relayOthers

\* a polling loop that does not look at the future
CheckDoneNever ==
    /\ consumer_pc = "check"
    /\ consumer_pc' = "get"
    /\ UNCHANGED <<pushed, progress_queue, future_done, worker_result,
                   progress_data, time_now, last_event_time, success,
                   connected, sent, drained,
                   last_forward_time>>
    /\ UNCHANGED pushed_at_disconnect
    /\ UNCHANGED relayOthers

\* while not future.done():
CheckDone ==
    /\ consumer_pc = "check"
    /\ consumer_pc' = IF future_done THEN "await" ELSE "get"
    /\ UNCHANGED <<pushed, progress_queue, future_done, worker_result,
                   progress_data, time_now, last_event_time, success,
                   connected, sent, drained,
                   last_forward_time>>
    /\ UNCHANGED pushed_at_disconnect
    /\ UNCHANGED relayOthers

GetNowaitNewest ==
    /\ consumer_pc = "get"
    /\ IF progress_queue # <<>>
       THEN /\ progress_data' = progress_queue[Len(progress_queue)]
            /\ progress_queue' = SubSeq(progress_queue, 1, Len(progress_queue) - 1)
            /\ consumer_pc' = "yield"
       ELSE /\ consumer_pc' = "empty"
            /\ UNCHANGED <<progress_data, progress_queue>>
    /\ UNCHANGED <<pushed, future_done, worker_result, time_now,
                   last_event_time, success, connected, sent, drained,
                   last_forward_time>>
    /\ UNCHANGED pushed_at_disconnect
    /\ UNCHANGED relayOthers

\* progress_data = progress_queue.get_nowait(), or queue.Empty
GetNowait ==
    /\ consumer_pc = "get"
    /\ IF progress_queue # <<>>
       THEN /\ progress_data' = Head(progress_queue)
            /\ progress_queue' = Tail(progress_queue)
            /\ consumer_pc' = "yield"
       ELSE /\ consumer_pc' = "empty"
            /\ UNCHANGED <<progress_data, progress_queue>>
    /\ UNCHANGED <<pushed, future_done, worker_result, time_now,
                   last_event_time, success, connected, sent, drained,
                   last_forward_time>>
    /\ UNCHANGED pushed_at_disconnect
    /\ UNCHANGED relayOthers

\* yield the progress event; last_event_time = time.time()
YieldProgress ==
    /\ consumer_pc = "yield"
    /\ sent' = Append(sent, ProgressMessage(progress_data))
    /\ last_event_time' = time_now
    /\ progress_data' = NoEvent
    /\ consumer_pc' = "check"
    /\ UNCHANGED <<pushed, progress_queue, future_done, worker_result,
                   time_now, success, connected, drained>>
    /\ last_forward_time' = IF sent' # sent THEN time_now ELSE last_forward_time
    /\ UNCHANGED pushed_at_disconnect
    /\ UNCHANGED relayOthers

EmptyPollLate ==
    /\ consumer_pc = "empty"
    /\ IF time_now - last_event_time > HEARTBEAT_INTERVAL
       THEN /\ sent' = Append(sent, PingMessage)
            /\ last_event_time' = time_now
       ELSE UNCHANGED <<sent, last_event_time>>
    /\ consumer_pc' = "check"
    /\ UNCHANGED <<pushed, progress_queue, future_done, worker_result,
                   progress_data, time_now, success, connected, drained>>
    /\ last_forward_time' = IF sent' # sent THEN time_now ELSE last_forward_time
    /\ UNCHANGED pushed_at_disconnect
    /\ UNCHANGED relayOthers

\* except queue.Empty: the keep-alive if it is due, then asyncio.sleep(0.1)
EmptyPoll ==
    /\ consumer_pc = "empty"
    /\ IF time_now - last_event_time >= HEARTBEAT_INTERVAL
       THEN /\ sent' = Append(sent, PingMessage)
            /\ last_event_time' = time_now
       ELSE UNCHANGED <<sent, last_event_time>>
    /\ consumer_pc' = "check"
    /\ UNCHANGED <<pushed, progress_queue, future_done, worker_result,
                   progress_data, time_now, success, connected, drained>>
    /\ last_forward_time' = IF sent' # sent THEN time_now ELSE last_forward_time
    /\ UNCHANGED pushed_at_disconnect
    /\ UNCHANGED relayOthers

\* success, error, ... = await future
AwaitFuture ==
    /\ consumer_pc = "await"
    /\ future_done
    /\ success' = worker_result.success
    /\ consumer_pc' = "drain"
    /\ UNCHANGED <<pushed, progress_queue, future_done, worker_result,
                   progress_data, time_now, last_event_time, connected, sent, drained,
                   last_forward_time>>
    /\ UNCHANGED pushed_at_disconnect
    /\ UNCHANGED relayOthers

DrainGetOnce ==
    /\ consumer_pc = "drain"
    /\ IF progress_queue # <<>> /\ drained = 0
       THEN /\ progress_data' = Head(progress_queue)
            /\ progress_queue' = Tail(progress_queue)
            /\ consumer_pc' = "drain_yield"
       ELSE /\ consumer_pc' = "final"
            /\ UNCHANGED <<progress_data, progress_queue>>
    /\ UNCHANGED <<pushed, future_done, worker_result, time_now,
                   last_event_time, success, connected, sent, drained,
                   last_forward_time>>
    /\ UNCHANGED pushed_at_disconnect
    /\ UNCHANGED relayOthers

\* while not progress_queue.empty(): progress_data = get_nowait()
DrainGet ==
    /\ consumer_pc = "drain"
    /\ IF progress_queue # <<>>
       THEN /\ progress_data' = Head(progress_queue)
            /\ progress_queue' = Tail(progress_queue)
            /\ consumer_pc' = "drain_yield"
       ELSE /\ consumer_pc' = "final"
            /\ UNCHANGED <<progress_data, progress_queue>>
    /\ UNCHANGED <<pushed, future_done, worker_result, time_now,
                   last_event_time, success, connected, sent, drained,
                   last_forward_time>>
    /\ UNCHANGED pushed_at_disconnect
    /\ UNCHANGED relayOthers

\* the yield of the drain loop
DrainYield ==
    /\ consumer_pc = "drain_yield"
    /\ sent' = Append(sent, ProgressMessage(progress_data))
    /\ progress_data' = NoEvent
    /\ drained' = drained + 1
    /\ consumer_pc' = "drain"
    /\ UNCHANGED <<pushed, progress_queue, future_done, worker_result,
                   time_now, last_event_time, success, connected>>
    /\ last_forward_time' = IF sent' # sent THEN time_now ELSE last_forward_time
    /\ UNCHANGED pushed_at_disconnect
    /\ UNCHANGED relayOthers

TerminalMessage ==
    IF ~success THEN ErrorMessage(worker_result.error)
    ELSE CompleteMessage(worker_result.summary)

YieldTerminalFallsThrough ==
    /\ consumer_pc = "final"
    /\ sent' = IF ~success
               THEN sent \o <<ErrorMessage(worker_result.error),
                               CompleteMessage(worker_result.summary)>>
               ELSE Append(sent, CompleteMessage(worker_result.summary))
    /\ consumer_pc' = "closed"
    /\ UNCHANGED <<pushed, progress_queue, future_done, worker_result,
                   progress_data, time_now, last_event_time, success, connected, drained>>
    /\ last_forward_time' = IF sent' # sent THEN time_now ELSE last_forward_time
    /\ UNCHANGED pushed_at_disconnect
    /\ UNCHANGED relayOthers

\* if not success: yield error; return.  Otherwise yield complete.
YieldTerminal ==
    /\ consumer_pc = "final"
    /\ sent' = Append(sent, TerminalMessage)
    /\ consumer_pc' = "closed"
    /\ UNCHANGED <<pushed, progress_queue, future_done, worker_result,
                   progress_data, time_now, last_event_time, success, connected, drained>>
    /\ last_forward_time' = IF sent' # sent THEN time_now ELSE last_forward_time
    /\ UNCHANGED pushed_at_disconnect
    /\ UNCHANGED relayOthers

\* the caller goes away: the generator is closed where it stands
Disconnect ==
    /\ consumer_pc \notin {"idle", "closed"}
    /\ connected' = FALSE
    /\ consumer_pc' = "closed"
    /\ UNCHANGED <<pushed, progress_queue, future_done, worker_result,
                   progress_data, time_now, last_event_time, success, sent, drained,
                   last_forward_time>>
    /\ pushed_at_disconnect' = Len(pushed)
    /\ UNCHANGED relayOthers

RelayNext ==
    \/ WorkerPush
    \/ WorkerFinish
    \/ Tick
    \/ CheckDone
    \/ GetNowait
    \/ YieldProgress
    \/ EmptyPoll
    \/ AwaitFuture
    \/ DrainGet
    \/ DrainYield
    \/ YieldTerminal
    \/ Disconnect

(***************************************************************************)
(* SpecDiff: compare_stores_sync, which lists the products of the primary  *)
(* store whose UPC the comparison store does not have.                     *)
(***************************************************************************)
\* Categories_tbl and SubCategories_tbl of the primary store
CategoryName(cate_id) == IF cate_id = 1 THEN "Drinks" ELSE NoneText
SubCateName(sub_id) == IF sub_id = 1 THEN "Soda" ELSE NoneText

\* the i-th product of a primary catalog
MakeProduct(i, upc) ==
    [ProductID          |-> i,
     ProductUPC         |-> upc,
     ProductDescription |-> CASE i % 3 = 1 -> "Widget A"
                              [] i % 3 = 2 -> NoneText
                              [] OTHER     -> "",
     Discontinued       |-> CASE i % 3 = 1 -> 0
                              [] i % 3 = 2 -> 1
                              [] OTHER     -> NoneId,
     CateID             |-> CASE i % 4 = 1 -> 1
                              [] i % 4 = 2 -> 2
                              [] OTHER     -> NoneId,
     SubCateID          |-> IF i % 2 = 1 THEN 1 ELSE NoneId]

SmallCatalogs(n) == {[i \in 1..n |-> MakeProduct(i, u[i])] : u \in [1..n -> UPCChoices]}

\* a catalog of more than one chunk; the products at the batch boundary carry
\* short UPCs, the others a UPC of their own
BigCatalogItems(u1, u2) ==
    [i \in 1..BigRowCount |->
        MakeProduct(i, IF i = MAX_PARAMS_PER_QUERY THEN u1
                       ELSE IF i = MAX_PARAMS_PER_QUERY + 1 THEN u2
                       ELSE FillerUPC(i))]

IsBigDiff == Len(primary_items) > MaxProducts + 1

\* the WHERE clause built from the filters
InFilter(ids, value) == ids = <<>> \/ (value # NoneId /\ value \in Range(ids))

\* the WHERE clause without the Discontinued condition
SelectedWithDiscontinued(product) ==
    /\ product.ProductUPC # NullUPC
    /\ product.ProductUPC # <<>>
    /\ InFilter(category_ids, product.CateID)
    /\ InFilter(subcategory_ids, product.SubCateID)
Selected(product) ==
    /\ product.ProductUPC # NullUPC
    /\ product.ProductUPC # <<>>
    /\ InFilter(category_ids, product.CateID)
    /\ InFilter(subcategory_ids, product.SubCateID)
    /\ (~include_discontinued =>
            (product.Discontinued = 0 \/ product.Discontinued = NoneId))

\* the numbered_products CTE: the selected products in ProductID order
NumberedProducts == SelectSeq(primary_items, Selected)

\* WHERE row_num > start_row AND row_num <= end_row
ProductChunk(start_row, end_row) ==
    LET e  == NumberedProducts
        lo == Min(start_row, Len(e))
        hi == Min(end_row, Len(e))
    IN  [i \in 1..(hi - lo) |-> e[lo + i]]

\* chunk_upcs: str(upc).strip() of the products whose UPC is not blank
ProductUpcs(products) ==
    SelectSeq([i \in 1..Len(products) |-> NormalizedUpc(products[i].ProductUPC)], NonEmpty)

MissingProduct(product) ==
    [product_id          |-> product.ProductID,
     product_upc         |-> NormalizedUpc(product.ProductUPC),
     product_description |-> DescriptionOrUnknown(product.ProductDescription),
     category_name       |-> IF CategoryName(product.CateID) = NoneText
                             THEN "Uncategorized" ELSE CategoryName(product.CateID),
     subcategory_name    |-> IF SubCateName(product.SubCateID) = NoneText
                             THEN "None" ELSE SubCateName(product.SubCateID),
     discontinued        |-> product.Discontinued = 1]

\* a variant that keeps one product per UPC, the last of the chunk
IsMissingLastOfUpc(product) ==
    /\ NormalizedUpc(product.ProductUPC) # <<>>
    /\ NormalizedUpc(product.ProductUPC) \notin d_existing_upcs
    /\ \A k \in 1..Len(chunk_products) :
          NormalizedUpc(chunk_products[k].ProductUPC) = NormalizedUpc(product.ProductUPC)
             => chunk_products[k].ProductID <= product.ProductID

\* normalized_upc and normalized_upc not in existing_upcs
IsMissing(product) ==
    /\ NormalizedUpc(product.ProductUPC) # <<>>
    /\ NormalizedUpc(product.ProductUPC) \notin d_existing_upcs

ChunkMissing ==
    LET missing == SelectSeq(chunk_products, IsMissing)
    IN  [i \in 1..Len(missing) |-> MissingProduct(missing[i])]

DiffIdle ==
    /\ primary_items = <<>>
    /\ comparison_catalog = {}
    /\ category_ids = <<>>
    /\ subcategory_ids = <<>>
    /\ include_discontinued = FALSE
    /\ d_faults_left = 0
    /\ diff_pc = "idle"
    /\ total_products = 0
    /\ d_total_chunks = 0
    /\ d_chunk_num = 0
    /\ chunk_products = <<>>
    /\ d_chunk_upcs = <<>>
    /\ d_batch_start = 0
    /\ d_existing_upcs = {}
    /\ missing_products = <<>>
    /\ total_checked = 0
    /\ diff_events = <<>>
    /\ d_last_query = [kind |-> "none", params |-> 0]
    /\ diff_result = <<>>

DiffInit ==
    /\ \/ /\ primary_items \in UNION {SmallCatalogs(n) : n \in 0..MaxProducts}
          /\ comparison_catalog \in CatalogChoices
          /\ category_ids \in {<<>>, <<1>>}
          /\ subcategory_ids \in {<<>>, <<1>>}
          /\ include_discontinued \in BOOLEAN
       \/ /\ primary_items \in {BigCatalogItems(u1, u2) : u1, u2 \in {<<1>>, <<2>>}}
          /\ comparison_catalog = BigCatalog
          /\ category_ids = <<>>
          /\ subcategory_ids = <<>>
          /\ include_discontinued = TRUE
    /\ d_faults_left = MaxFaults
    /\ diff_pc = "connect"
    /\ total_products = 0
    /\ d_total_chunks = 0
    /\ d_chunk_num = 0
    /\ chunk_products = <<>>
    /\ d_chunk_upcs = <<>>
    /\ d_batch_start = 0
    /\ d_existing_upcs = {}
    /\ missing_products = <<>>
    /\ total_checked = 0
    /\ diff_events = <<>>
    /\ d_last_query = [kind |-> "none", params |-> 0]
    /\ diff_result = <<>>

\* except pyodbc.Error / except Exception: return False, error_msg, [], 0
DiffFails ==
    /\ d_faults_left > 0
    /\ d_faults_left' = d_faults_left - 1
    /\ diff_result' = <<FALSE, "query failed", <<>>, 0>>
    /\ diff_pc' = "returned"

\* pyodbc.connect of the primary and of the comparison store
DiffConnect ==
    /\ diff_pc = "connect"
    /\ \/ /\ diff_pc' = "count"
          /\ UNCHANGED <<d_faults_left, diff_result>>
       \/ DiffFails
    /\ UNCHANGED <<primary_items, comparison_catalog, category_ids,
                   subcategory_ids, include_discontinued, total_products,
                   d_total_chunks, d_chunk_num, chunk_products, d_chunk_upcs,
                   d_batch_start, d_existing_upcs, missing_products,
                   total_checked, diff_events, d_last_query>>
    /\ UNCHANGED diffOthers

\* Step 1 and 2: the count query, the number of chunks, the starting event
DiffCount ==
    /\ diff_pc = "count"
    /\ \/ /\ total_products' = Len(NumberedProducts)
          /\ IF total_products' = 0
             THEN /\ diff_result' = <<TRUE, "", <<>>, 0>>
                  /\ diff_pc' = "returned"
                  /\ UNCHANGED <<d_total_chunks, diff_events>>
             ELSE /\ d_total_chunks' = TotalChunks(total_products', CHUNK_SIZE)
                  /\ diff_events' = Append(diff_events,
                        [status         |-> "starting",
                         total_products |-> total_products',
                         total_chunks   |-> d_total_chunks'])
                  /\ diff_pc' = "chunk"
                  /\ UNCHANGED diff_result
          /\ UNCHANGED d_faults_left
       \/ /\ DiffFails
          /\ UNCHANGED <<total_products, d_total_chunks, diff_events>>
    /\ UNCHANGED <<primary_items, comparison_catalog, category_ids,
                   subcategory_ids, include_discontinued, d_chunk_num,
                   chunk_products, d_chunk_upcs, d_batch_start, d_existing_upcs,
                   missing_products, total_checked, d_last_query>>
    /\ UNCHANGED diffOthers

\* Step 3: the chunk query and the UPCs of the chunk; a chunk without rows or
\* without a usable UPC is left by "continue"
DiffChunkFetch ==
    /\ diff_pc = "chunk"
    /\ d_chunk_num < d_total_chunks
    /\ \/ LET products == ProductChunk(StartRow(d_chunk_num, CHUNK_SIZE),
                                       EndRow(d_chunk_num, CHUNK_SIZE))
              upcs == ProductUpcs(products)
          IN  /\ chunk_products' = products
              /\ d_chunk_upcs' = upcs
              /\ d_existing_upcs' = {}
              /\ d_batch_start' = 0
              /\ total_checked' = total_checked + Len(products)
              /\ IF products = <<>> \/ upcs = <<>>
                 THEN /\ d_chunk_num' = d_chunk_num + 1
                      /\ diff_pc' = "chunk"
                 ELSE /\ diff_pc' = "probe"
                      /\ UNCHANGED d_chunk_num
              /\ UNCHANGED <<d_faults_left, diff_result>>
       \/ /\ DiffFails
          /\ UNCHANGED <<chunk_products, d_chunk_upcs, d_existing_upcs,
                         d_batch_start, total_checked, d_chunk_num>>
    /\ UNCHANGED <<primary_items, comparison_catalog, category_ids,
                   subcategory_ids, include_discontinued, total_products,
                   d_total_chunks, missing_products, diff_events, d_last_query>>
    /\ UNCHANGED diffOthers

\* one batch of at most MAX_PARAMS_PER_QUERY UPCs against the comparison store
DiffProbeBatch ==
    /\ diff_pc = "probe"
    /\ d_batch_start < Len(d_chunk_upcs)
    /\ LET upc_batch == UpcBatch(d_chunk_upcs, d_batch_start)
       IN  /\ d_last_query' = [kind |-> "probe", params |-> Len(upc_batch)]
           /\ \/ /\ d_existing_upcs' = d_existing_upcs
                       \cup BatchResults(TargetQuery(comparison_catalog, upc_batch))
                 /\ d_batch_start' = d_batch_start + MAX_PARAMS_PER_QUERY
                 /\ diff_pc' = IF d_batch_start + MAX_PARAMS_PER_QUERY < Len(d_chunk_upcs)
                               THEN "probe" ELSE "classify"
                 /\ UNCHANGED <<d_faults_left, diff_result>>
              \/ /\ DiffFails
                 /\ UNCHANGED <<d_existing_upcs, d_batch_start>>
    /\ UNCHANGED <<primary_items, comparison_catalog, category_ids,
                   subcategory_ids, include_discontinued, total_products,
                   d_total_chunks, d_chunk_num, chunk_products, d_chunk_upcs,
                   missing_products, total_checked, diff_events>>
    /\ UNCHANGED diffOthers

\* the products of the chunk that are missing, and the chunk_progress event
DiffClassify ==
    /\ diff_pc = "classify"
    /\ LET missing == ChunkMissing
       IN  /\ missing_products' = missing_products \o missing
           /\ diff_events' = Append(diff_events,
                 [status           |-> "chunk_progress",
                  chunk            |-> d_chunk_num + 1,
                  total_chunks     |-> d_total_chunks,
                  products_checked |-> total_checked,
                  total_products   |-> total_products,
                  missing_in_chunk |-> Len(missing),
                  total_missing    |-> Len(missing_products) + Len(missing)])
    /\ d_chunk_num' = d_chunk_num + 1
    /\ diff_pc' = "chunk"
    /\ UNCHANGED <<primary_items, comparison_catalog, category_ids,
                   subcategory_ids, include_discontinued, d_faults_left,
                   total_products, d_total_chunks, chunk_products, d_chunk_upcs,
                   d_batch_start, d_existing_upcs, total_checked, d_last_query,
                   diff_result>>
    /\ UNCHANGED diffOthers

\* a comparison that enters the missing UPCs into the comparison store
DiffReturnAddsMissing ==
    /\ diff_pc = "chunk"
    /\ d_chunk_num = d_total_chunks
    /\ diff_result' = <<TRUE, "", missing_products, total_checked>>
    /\ diff_pc' = "returned"
    /\ comparison_catalog' = comparison_catalog
          \cup {missing_products[i].product_upc : i \in 1..Len(missing_products)}
    /\ UNCHANGED <<primary_items, category_ids,
                   subcategory_ids, include_discontinued, d_faults_left,
                   total_products, d_total_chunks, d_chunk_num, chunk_products,
                   d_chunk_upcs, d_batch_start, d_existing_upcs,
                   missing_products, total_checked, diff_events, d_last_query>>
    /\ UNCHANGED diffOthers

\* return True, None, missing_products, total_checked
DiffReturn ==
    /\ diff_pc = "chunk"
    /\ d_chunk_num = d_total_chunks
    /\ diff_result' = <<TRUE, "", missing_products, total_checked>>
    /\ diff_pc' = "returned"
    /\ UNCHANGED <<primary_items, comparison_catalog, category_ids,
                   subcategory_ids, include_discontinued, d_faults_left,
                   total_products, d_total_chunks, d_chunk_num, chunk_products,
                   d_chunk_upcs, d_batch_start, d_existing_upcs,
                   missing_products, total_checked, diff_events, d_last_query>>
    /\ UNCHANGED diffOthers

DiffNext ==
    \/ DiffConnect
    \/ DiffCount
    \/ DiffChunkFetch
    \/ DiffProbeBatch
    \/ DiffClassify
    \/ DiffReturn

(***************************************************************************)
(* SpecMatch: find_matches_by_product_id_sync and                          *)
(* find_matches_by_description_sync, which look the orphan records up in   *)
(* Items_tbl in batches of BATCH_SIZE records.                             *)
(***************************************************************************)
\* the rows Items_tbl may hold: two rows share a key, two have no usable UPC
ItemRows ==
    {[ProductID |-> 1, ProductDescription |-> "Widget A", ProductUPC |-> <<1>>],
     [ProductID |-> 1, ProductDescription |-> "Widget A", ProductUPC |-> <<2>>],
     [ProductID |-> 2, ProductDescription |-> "Widget B", ProductUPC |-> NullUPC],
     [ProductID |-> 3, ProductDescription |-> "Widget C", ProductUPC |-> <<>>]}

\* the product_id and description an orphan record may carry
KeyChoices ==
    {<<NoneId, "Unknown">>, <<1, "Widget A">>, <<2, "">>, <<3, NoneText>>,
     <<NoneId, "Widget B">>}

MakeRecord(i, key) ==
    [table_name  |-> IF i % 2 = 0 THEN "InvoicesDetails_tbl" ELSE "QuotationDetails",
     primary_key |-> i,
     upc         |-> <<6 + (i % 3)>>,
     product_id  |-> key[1],
     description |-> key[2]]

SmallRequests(n) == {[i \in 1..n |-> MakeRecord(i, k[i])] : k \in [1..n -> KeyChoices]}

\* a long request: all records carry a key, or every seventh does not
LongRequest(n, all_keyed) ==
    [i \in 1..n |->
        MakeRecord(i, IF ~all_keyed /\ i % 7 = 0 THEN <<NoneId, "Unknown">>
                      ELSE IF i % 2 = 0 THEN <<1, "Widget A">>
                      ELSE <<2, "Widget B">>)]

LongRequests ==
    {LongRequest(k * BATCH_SIZE + d, a) :
        k \in 1..MaxMatchBatches, d \in {0, 1}, a \in BOOLEAN}

\* a split that sends every record to the lookup
HasKeyAlways(record) == TRUE

\* product_id is None / not description or description == "Unknown"
HasKey(record) ==
    IF match_type = "product_id"
    THEN record.product_id # NoneId
    ELSE record.description \notin {NoneText, "", "Unknown"}

\* a split that loses the records without a key
HasNoKeyNever(record) == FALSE

HasNoKey(record) == ~HasKey(record)

KeyMatches(row, record) ==
    IF match_type = "product_id"
    THEN row.ProductID = record.product_id
    ELSE row.ProductDescription = record.description

\* the description strategy reporting the product id
MatchFieldValueId(record) == ToString(record.product_id)

\* str(product_id) / description
MatchFieldValue(record) ==
    IF match_type = "product_id" THEN ToString(record.product_id)
    ELSE record.description

\* SELECT key, ProductUPC FROM Items_tbl WHERE key IN (...)
LookupQuery(records) == {row \in items_tbl : \E i \in 1..Len(records) : KeyMatches(row, records[i])}

\* upc_lookup = {row[0]: row[1] for row in results if row[1]}: of the rows
\* with one key the dict keeps the last in the order the database returned
Orders(rows) ==
    {o \in [1..Cardinality(rows) -> rows] : \A r \in rows : \E i \in DOMAIN o : o[i] = r}

UpcLookup(order, record) ==
    LET hits == {i \in DOMAIN order :
                    Truthy(order[i].ProductUPC) /\ KeyMatches(order[i], record)}
    IN  IF hits = {} THEN NullUPC ELSE order[SetMax(hits)].ProductUPC

NoMatch(record, value) ==
    [table_name        |-> record.table_name,
     primary_key       |-> record.primary_key,
     orphaned_upc      |-> record.upc,
     match_found       |-> FALSE,
     items_tbl_upc     |-> NullUPC,
     match_field_value |-> value]

\* a lookup that takes the row of a key whatever its UPC
MatchForAnyRow(order, record) ==
    LET hits == {i \in DOMAIN order : KeyMatches(order[i], record)}
    IN  IF hits = {}
        THEN NoMatch(record, MatchFieldValue(record))
        ELSE [table_name        |-> record.table_name,
              primary_key       |-> record.primary_key,
              orphaned_upc      |-> record.upc,
              match_found       |-> TRUE,
              items_tbl_upc     |-> order[SetMax(hits)].ProductUPC,
              match_field_value |-> MatchFieldValue(record)]

\* if items_upc: a match, else no match
MatchFor(order, record) ==
    LET items_upc == UpcLookup(order, record)
    IN  IF Truthy(items_upc)
        THEN [table_name        |-> record.table_name,
              primary_key       |-> record.primary_key,
              orphaned_upc      |-> record.upc,
              match_found       |-> TRUE,
              items_tbl_upc     |-> items_upc,
              match_field_value |-> MatchFieldValue(record)]
        ELSE NoMatch(record, MatchFieldValue(record))

\* batch_end = min(batch_start + BATCH_SIZE, total_records)
MatchBatchEnd(start, n) == Min(start + BATCH_SIZE, n)

\* a flag computed over all matches so far
BatchMatchedAll(all_matches, start) ==
    \E j \in 1..Len(all_matches) : all_matches[j].match_found

\* batch_matched = sum(1 for m in matches[batch_start:] if m["match_found"]);
\* "matched": batch_matched > 0
BatchMatched(all_matches, start) ==
    \E j \in (start + 1)..Len(all_matches) : all_matches[j].match_found

MatchIdle ==
    /\ match_type = "product_id"
    /\ m_orphaned_records = <<>>
    /\ items_tbl = {}
    /\ m_faults_left = 0
    /\ match_pc = "idle"
    /\ m_batch_start = 0
    /\ matches = <<>>
    /\ match_events = <<>>
    /\ m_last_query = [kind |-> "none", params |-> 0]
    /\ match_result = <<>>
MatchInit ==
    /\ match_type \in {"product_id", "description"}
    /\ \/ /\ m_orphaned_records \in UNION {SmallRequests(n) : n \in 0..MaxRecords}
          /\ items_tbl \in SUBSET ItemRows
       \/ /\ m_orphaned_records \in LongRequests
          /\ items_tbl = ItemRows
    /\ m_faults_left = MaxFaults
    /\ match_pc = "connect"
    /\ m_batch_start = 0
    /\ matches = <<>>
    /\ match_events = <<>>
    /\ m_last_query = [kind |-> "none", params |-> 0]
    /\ match_result = <<>>
\* except pyodbc.Error: return False, error_msg, []
MatchFails ==
    /\ m_faults_left > 0
    /\ m_faults_left' = m_faults_left - 1
    /\ match_result' = <<FALSE, "query failed", <<>>>>
    /\ match_pc' = "returned"

MatchConnect ==
    /\ match_pc = "connect"
    /\ \/ /\ match_pc' = "batch"
          /\ UNCHANGED <<m_faults_left, match_result>>
       \/ MatchFails
    /\ UNCHANGED <<match_type, m_orphaned_records, items_tbl, m_batch_start,
                   matches, match_events, m_last_query>>
    /\ UNCHANGED matchOthers
\* one iteration of "for batch_start in range(0, total_records, BATCH_SIZE)"
MatchBatch ==
    /\ match_pc = "batch"
    /\ m_batch_start < Len(m_orphaned_records)
    /\ LET batch_end == MatchBatchEnd(m_batch_start, Len(m_orphaned_records))
           batch == SubSeq(m_orphaned_records, m_batch_start + 1, batch_end)
           with_key == SelectSeq(batch, HasKey)
           without_key == SelectSeq(batch, HasNoKey)
           unmatched == [i \in 1..Len(without_key) |-> NoMatch(without_key[i], "N/A")]
       IN  IF with_key = <<>>
           THEN /\ matches' = matches \o unmatched
                /\ match_events' = Append(match_events,
                      [status  |-> "checked",
                       current |-> batch_end,
                       total   |-> Len(m_orphaned_records),
                       matched |-> BatchMatched(matches', m_batch_start)])
                /\ m_batch_start' = m_batch_start + BATCH_SIZE
                /\ UNCHANGED <<m_last_query, m_faults_left, match_pc, match_result>>
           ELSE /\ m_last_query' = [kind |-> "matcher", params |-> Len(with_key)]
                /\ \/ \E order \in Orders(LookupQuery(with_key)) :
                        LET found == [i \in 1..Len(with_key) |-> MatchFor(order, with_key[i])]
                        IN  /\ matches' = matches \o unmatched \o found
                            /\ match_events' = Append(match_events,
                                  [status  |-> "checked",
                                   current |-> batch_end,
                                   total   |-> Len(m_orphaned_records),
                                   matched |-> BatchMatched(matches', m_batch_start)])
                            /\ m_batch_start' = m_batch_start + BATCH_SIZE
                            /\ UNCHANGED <<m_faults_left, match_pc, match_result>>
                   \/ /\ MatchFails
                      /\ UNCHANGED <<matches, match_events, m_batch_start>>
    /\ UNCHANGED <<match_type, m_orphaned_records, items_tbl>>
    /\ UNCHANGED matchOthers
\* return True, None, matches
MatchReturn ==
    /\ match_pc = "batch"
    /\ m_batch_start >= Len(m_orphaned_records)
    /\ match_result' = <<TRUE, "", matches>>
    /\ match_pc' = "returned"
    /\ UNCHANGED <<match_type, m_orphaned_records, items_tbl, m_faults_left,
                   m_batch_start, matches, match_events, m_last_query>>
    /\ UNCHANGED matchOthers
MatchNext == MatchConnect \/ MatchBatch \/ MatchReturn

(***************************************************************************)
(* The specifications.                                                     *)
(***************************************************************************)
(* SpecUpdateStream: the update stream, i.e. the relay's consumer together *)
(* with the batch updater as its worker.  The worker runs on a thread of   *)
(* the executor; every event it appends to upd_events goes through         *)
(* progress_callback onto the queue, and its return completes the future.  *)
(***************************************************************************)
StreamUpdateCounts == {1, UPDATE_BATCH_SIZE + 1}

\* progress_callback(data): progress_queue.put(data), for each new event
NewEvents == [i \in 1..(Len(upd_events') - Len(upd_events)) |-> Event(Len(upd_events) + i)]

PutNewEvents ==
    /\ pushed' = pushed \o NewEvents
    /\ progress_queue' = progress_queue \o NewEvents
    /\ UNCHANGED <<future_done, worker_result, consumer_pc, progress_data,
                   time_now, last_event_time, success, connected, sent, drained,
                   last_forward_time, pushed_at_disconnect>>

streamOthers == <<chunkVars, auditVars, diffVars, matchVars, callerVars>>

StreamInit ==
    /\ UpdateInit
    /\ Len(updates) \in StreamUpdateCounts
    /\ RelayInit
    /\ ChunkIdle /\ AuditIdle /\ DiffIdle /\ MatchIdle /\ CallerIdle

StreamBatchStart == BatchStartStep /\ PutNewEvents /\ UNCHANGED streamOthers

\* a worker that stops once the caller has gone away
StreamRowUpdateCancelled ==
    /\ connected
    /\ RowUpdateStep
    /\ PutNewEvents
    /\ UNCHANGED streamOthers

StreamRowUpdate == RowUpdateStep /\ PutNewEvents /\ UNCHANGED streamOthers

StreamBatchFinish == BatchFinishStep /\ PutNewEvents /\ UNCHANGED streamOthers

\* success, error, results = await future
StreamWorkerReturn ==
    /\ WrapperReturnStep
    /\ future_done' = TRUE
    /\ worker_result' = [success |-> upd_result'[1], error |-> upd_result'[2],
                         summary |-> Len(upd_result'[3])]
    /\ UNCHANGED <<pushed, progress_queue, consumer_pc, progress_data,
                   time_now, last_event_time, success, connected, sent, drained,
                   last_forward_time, pushed_at_disconnect>>
    /\ UNCHANGED streamOthers

StreamWorker ==
    StreamBatchStart \/ StreamRowUpdate \/ StreamBatchFinish \/ StreamWorkerReturn

StreamNext ==
    \/ StreamBatchStart
    \/ StreamRowUpdate
    \/ StreamBatchFinish
    \/ StreamWorkerReturn
    \/ CheckDone
    \/ GetNowait
    \/ YieldProgress
    \/ EmptyPoll
    \/ AwaitFuture
    \/ DrainGet
    \/ DrainYield
    \/ YieldTerminal
    \/ Disconnect

\* the executor's thread is scheduled whether or not anybody listens
SpecUpdateStream == StreamInit /\ [][StreamNext]_vars /\ WF_vars(StreamWorker)

(***************************************************************************)
(* SpecAuditStream: the audit stream, i.e. the relay's consumer together   *)
(* with the audit as its worker.  The generator first yields a 'starting'  *)
(* progress message and then hands the audit to the executor.              *)
(***************************************************************************)
StartingMessage == Message("progress", NoEvent, "starting", NoneId)

NewAuditEvents ==
    [i \in 1..(Len(audit_events') - Len(audit_events)) |-> Event(Len(audit_events) + i)]

\* success, error, orphaned_records, tables_checked = await audit_future
AuditOutcome(result) ==
    [success |-> result[1],
     error   |-> IF result[2] = "" THEN NoneText ELSE result[2],
     summary |-> Len(result[3])]

\* the audit runs on the executor's thread once the generator has started
\* it: its events go through progress_callback onto the queue, its return
\* completes the future
AuditWorker ==
    /\ consumer_pc # "start"
    /\ sent # <<>>
    /\ pushed' = pushed \o NewAuditEvents
    /\ progress_queue' = progress_queue \o NewAuditEvents
    /\ future_done' = (audit_pc' = "returned")
    /\ worker_result' = IF audit_pc' = "returned" THEN AuditOutcome(audit_result')
                        ELSE worker_result
    /\ UNCHANGED <<consumer_pc, progress_data, time_now, last_event_time, success,
                   connected, sent, drained, last_forward_time, pushed_at_disconnect>>
    /\ UNCHANGED <<chunkVars, updVars, diffVars, matchVars, callerVars>>

\* the exclusion lists of the source store
ExclusionChoices == {{}, {<<2>>}}

\* a filter that lets every record through
FilterExcludedNothing(records, excluded) == records

\* [record for record in orphaned_records if record["upc"] not in excluded_upcs]
FilterExcluded(records, excluded) ==
    LET NotExcluded(record) == record.upc \notin excluded
    IN  SelectSeq(records, NotExcluded)

AuditStreamInit ==
    /\ target_params \in {AllSupplied, NoTarget}
    /\ is_cross_db = IsCrossDb(target_params)
    /\ source_db = [t \in TableNames |-> Unread]
    /\ target_catalog = {<<1>>}
    /\ rows_left = StreamRowsTotal
    /\ faults_left = MaxFaults
    /\ audit_pc = "connect"
    /\ table_idx = 0
    /\ a_total_records = 0
    /\ a_total_chunks = 0
    /\ a_chunk_num = 0
    /\ chunk_rows = <<>>
    /\ chunk_upcs = <<>>
    /\ batch_start = 0
    /\ existing_upcs = {}
    /\ table_orphans = <<>>
    /\ orphaned_records = <<>>
    /\ tables_checked = 0
    /\ audit_events = <<>>
    /\ last_query = [kind |-> "none", params |-> 0]
    /\ audit_result = <<>>
    /\ pushed = <<>>
    /\ progress_queue = <<>>
    /\ future_done = FALSE
    /\ worker_result = NoResult
    /\ consumer_pc = "start"
    /\ progress_data = NoEvent
    /\ time_now = 0
    /\ last_event_time = 0
    /\ success = FALSE
    /\ connected = TRUE
    /\ sent = <<>>
    /\ drained = 0
    /\ last_forward_time = 0
    /\ pushed_at_disconnect = NoneId
    /\ run_no = 1
    /\ first_result = <<>>
    /\ first_events = <<>>
    /\ excluded_upcs \in ExclusionChoices
    /\ result_data = NoData
    /\ ChunkIdle /\ UpdateIdle /\ DiffIdle /\ MatchIdle

\* yield 'starting', then run_in_executor
StartAudit ==
    /\ consumer_pc = "start"
    /\ sent' = Append(sent, StartingMessage)
    /\ consumer_pc' = "check"
    /\ UNCHANGED <<pushed, progress_queue, future_done, worker_result,
                   progress_data, time_now, last_event_time, success, connected,
                   drained, last_forward_time, pushed_at_disconnect>>
    /\ UNCHANGED relayOthers

\* after the drain: 'error' and return, or the exclusion filter and the
\* 'complete' message with result_data
YieldAuditTerminal ==
    /\ consumer_pc = "final"
    /\ IF ~success
       THEN /\ sent' = Append(sent, ErrorMessage(worker_result.error))
            /\ UNCHANGED result_data
       ELSE LET records == FilterExcluded(audit_result[3], excluded_upcs)
            IN  /\ result_data' = [orphaned_records |-> records,
                                   total_orphaned   |-> Len(records),
                                   tables_checked   |-> audit_result[4]]
                /\ sent' = Append(sent, CompleteMessage(Len(records)))
    /\ consumer_pc' = "closed"
    /\ last_forward_time' = time_now
    /\ UNCHANGED <<pushed, progress_queue, future_done, worker_result,
                   progress_data, time_now, last_event_time, success, connected,
                   drained, pushed_at_disconnect>>
    /\ UNCHANGED <<run_no, first_result, first_events, excluded_upcs>>
    /\ UNCHANGED <<chunkVars, auditVars, updVars, diffVars, matchVars>>

StreamOpenConnections == OpenConnectionsStep /\ AuditWorker
StreamTableBegin == TableBeginStep /\ AuditWorker
StreamChunkFetch == ChunkFetchStep /\ AuditWorker
StreamProbeBatch == ProbeBatchStep /\ AuditWorker
StreamClassifyChunk == ClassifyChunkStep /\ AuditWorker
StreamChunkJoin == ChunkJoinStep /\ AuditWorker
StreamTableEnd == TableEndStep /\ AuditWorker
StreamAuditReturn == AuditReturnStep /\ AuditWorker

AuditStreamNext ==
    \/ StartAudit
    \/ StreamOpenConnections
    \/ StreamTableBegin
    \/ StreamChunkFetch
    \/ StreamProbeBatch
    \/ StreamClassifyChunk
    \/ StreamChunkJoin
    \/ StreamTableEnd
    \/ StreamAuditReturn
    \/ CheckDone
    \/ GetNowait
    \/ YieldProgress
    \/ EmptyPoll
    \/ AwaitFuture
    \/ DrainGet
    \/ DrainYield
    \/ YieldAuditTerminal
    \/ Disconnect

SpecAuditStream == AuditStreamInit /\ [][AuditStreamNext]_vars

(***************************************************************************)
(***************************************************************************)
(* SpecRerun: _audit_orphaned_upcs_sync called twice with the same         *)
(* parameters.  Everything the audit works with is local to the call, so   *)
(* the second call starts as the first did; the source tables and the      *)
(* target catalog are those of the first call.  A query over unchanged     *)
(* tables returns the same rows in the same order.                         *)
(***************************************************************************)
RerunInit ==
    /\ target_params \in {AllSupplied, NoTarget}
    /\ is_cross_db = IsCrossDb(target_params)
    /\ source_db = [t \in TableNames |-> Unread]
    /\ target_catalog \in CatalogChoices \cup {BigCatalog}
    /\ rows_left = SameDbRowsTotal
    /\ faults_left = MaxFaults
    /\ audit_pc = "connect"
    /\ table_idx = 0
    /\ a_total_records = 0
    /\ a_total_chunks = 0
    /\ a_chunk_num = 0
    /\ chunk_rows = <<>>
    /\ chunk_upcs = <<>>
    /\ batch_start = 0
    /\ existing_upcs = {}
    /\ table_orphans = <<>>
    /\ orphaned_records = <<>>
    /\ tables_checked = 0
    /\ audit_events = <<>>
    /\ last_query = [kind |-> "none", params |-> 0]
    /\ audit_result = <<>>
    /\ ChunkIdle /\ UpdateIdle /\ RelayIdle /\ DiffIdle /\ MatchIdle /\ CallerIdle

\* a second call that goes on with the list of the first
SecondCallKeepsRecords ==
    /\ run_no = 1
    /\ audit_pc = "returned"
    /\ audit_result[1] = TRUE
    /\ run_no' = 2
    /\ first_result' = audit_result
    /\ first_events' = audit_events
    /\ rows_left' = SameDbRowsTotal
    /\ audit_pc' = "connect"
    /\ table_idx' = 0
    /\ a_total_records' = 0
    /\ a_total_chunks' = 0
    /\ a_chunk_num' = 0
    /\ chunk_rows' = <<>>
    /\ chunk_upcs' = <<>>
    /\ batch_start' = 0
    /\ existing_upcs' = {}
    /\ table_orphans' = <<>>
    /\ tables_checked' = 0
    /\ audit_events' = <<>>
    /\ last_query' = [kind |-> "none", params |-> 0]
    /\ audit_result' = <<>>
    /\ UNCHANGED target_params
    /\ UNCHANGED <<is_cross_db, source_db, target_catalog, faults_left,
                   orphaned_records>>
    /\ UNCHANGED <<excluded_upcs, result_data>>
    /\ UNCHANGED <<chunkVars, updVars, relayVars, diffVars, matchVars>>

\* the audit is called again after a call that succeeded: orphaned_records,
\* tables_checked and the progress queue are created anew
SecondCall ==
    /\ run_no = 1
    /\ audit_pc = "returned"
    /\ audit_result[1] = TRUE
    /\ run_no' = 2
    /\ first_result' = audit_result
    /\ first_events' = audit_events
    /\ rows_left' = SameDbRowsTotal
    /\ audit_pc' = "connect"
    /\ table_idx' = 0
    /\ a_total_records' = 0
    /\ a_total_chunks' = 0
    /\ a_chunk_num' = 0
    /\ chunk_rows' = <<>>
    /\ chunk_upcs' = <<>>
    /\ batch_start' = 0
    /\ existing_upcs' = {}
    /\ table_orphans' = <<>>
    /\ orphaned_records' = <<>>
    /\ tables_checked' = 0
    /\ audit_events' = <<>>
    /\ last_query' = [kind |-> "none", params |-> 0]
    /\ audit_result' = <<>>
    /\ UNCHANGED target_params
    /\ UNCHANGED <<is_cross_db, source_db, target_catalog, faults_left>>
    /\ UNCHANGED <<excluded_upcs, result_data>>
    /\ UNCHANGED <<chunkVars, updVars, relayVars, diffVars, matchVars>>

RerunNext ==
    \/ OpenConnections
    \/ TableBegin
    \/ ChunkFetch
    \/ ProbeBatch
    \/ ClassifyChunk
    \/ ChunkJoin
    \/ TableEnd
    \/ AuditReturn
    \/ SecondCall

SpecRerun == RerunInit /\ [][RerunNext]_vars

(***************************************************************************)
(* SpecStreams: an update stream or an audit stream, with the scheduling   *)
(* both rely on.  The worker runs on a thread of the executor and the      *)
(* generator is resumed by the event loop for as long as the caller reads, *)
(* so neither waits forever for a step it can take.                        *)
(***************************************************************************)
IsUpdateStream == upd_pc # "idle"

IsAuditStream == audit_pc # "idle"

InitStreams ==
    \/ StreamInit
    \/ AuditStreamInit /\ excluded_upcs = {}

AuditStreamWorker ==
    \/ StreamOpenConnections
    \/ StreamTableBegin
    \/ StreamChunkFetch
    \/ StreamProbeBatch
    \/ StreamClassifyChunk
    \/ StreamChunkJoin
    \/ StreamTableEnd
    \/ StreamAuditReturn

\* the steps of the generator of either stream
StreamConsumer ==
    \/ StartAudit
    \/ CheckDone
    \/ GetNowait
    \/ YieldProgress
    \/ EmptyPoll
    \/ AwaitFuture
    \/ DrainGet
    \/ DrainYield
    \/ IsUpdateStream /\ YieldTerminal
    \/ IsAuditStream /\ YieldAuditTerminal

StreamsNext ==
    \/ StreamWorker
    \/ AuditStreamWorker
    \/ StreamConsumer
    \/ Disconnect

SpecStreams ==
    /\ InitStreams
    /\ [][StreamsNext]_vars
    /\ WF_vars(StreamWorker)
    /\ WF_vars(AuditStreamWorker)
    /\ WF_vars(StreamConsumer)

(***************************************************************************)
(* SpecUpdateGone: the updater run on a request of which some rows are no  *)
(* longer in their table, for example because they were deleted after the  *)
(* audit had reported them.                                                *)
(***************************************************************************)
\* the positions of the request whose row is gone
GoneChoices == SUBSET {1, 2}

UpdateGoneInit ==
    /\ \E n \in UpdateCounts : updates = [i \in 1..n |-> MakeUpdate(i)]
    /\ \E gone \in GoneChoices :
          detail_db = [k \in {StoredKey(updates[i]) : i \in (1..Len(updates)) \ gone}
                          |-> OldUPC]
    /\ upd_faults_left = MaxUpdateFaults
    /\ raised = {}
    /\ failed_batches = {}
    /\ upd_pc = "batch"
    /\ batch_num = 0
    /\ row_idx = 0
    /\ results = <<>>
    /\ all_results = <<>>
    /\ total_updated = 0
    /\ total_failed = 0
    /\ upd_events = <<>>
    /\ upd_result = <<>>

InitUpdateGone ==
    UpdateGoneInit /\ ChunkIdle /\ AuditIdle /\ RelayIdle /\ DiffIdle /\ MatchIdle /\ CallerIdle

SpecUpdateGone == InitUpdateGone /\ [][UpdateNext]_vars

InitChunk == ChunkInit /\ AuditIdle /\ UpdateIdle /\ RelayIdle /\ DiffIdle /\ MatchIdle /\ CallerIdle

SpecChunk == InitChunk /\ [][ChunkNext]_vars

InitAudit == AuditInit /\ ChunkIdle /\ UpdateIdle /\ RelayIdle /\ DiffIdle /\ MatchIdle /\ CallerIdle

SpecAudit == InitAudit /\ [][AuditNext]_vars

InitUpdate == UpdateInit /\ ChunkIdle /\ AuditIdle /\ RelayIdle /\ DiffIdle /\ MatchIdle /\ CallerIdle

SpecUpdate == InitUpdate /\ [][UpdateNext]_vars

InitRelay == RelayInit /\ ChunkIdle /\ AuditIdle /\ UpdateIdle /\ DiffIdle /\ MatchIdle /\ CallerIdle

SpecRelay == InitRelay /\ [][RelayNext]_vars

InitDiff == DiffInit /\ ChunkIdle /\ AuditIdle /\ UpdateIdle /\ RelayIdle /\ MatchIdle /\ CallerIdle

SpecDiff == InitDiff /\ [][DiffNext]_vars

InitMatch == MatchInit /\ ChunkIdle /\ AuditIdle /\ UpdateIdle /\ RelayIdle /\ DiffIdle /\ CallerIdle

SpecMatch == InitMatch /\ [][MatchNext]_vars

\* an audit, a comparison or a reconciliation: the runs that look UPCs or
\* keys up in a catalog
InitLookup ==
    /\ \/ AuditInit /\ DiffIdle /\ MatchIdle
       \/ DiffInit /\ AuditIdle /\ MatchIdle
       \/ MatchInit /\ AuditIdle /\ DiffIdle
    /\ ChunkIdle
    /\ UpdateIdle
    /\ RelayIdle
    /\ CallerIdle

LookupNext == AuditNext \/ DiffNext \/ MatchNext

SpecLookup == InitLookup /\ [][LookupNext]_vars

(***************************************************************************)
(* C1: the windows of a finished scan are pairwise disjoint, together      *)
(* they fetch exactly the rows 1..N, each row in exactly one chunk, and    *)
(* the number of chunks is ceil(N / C); while the scan runs the windows    *)
(* issued so far are disjoint and cover exactly the first rows.            *)
(***************************************************************************)
CeilDiv(n, c) == CHOOSE k \in 0..n : k * c >= n /\ (k - 1) * c < n

ChunkCoverage ==
    (scan_pc \in {"loop", "done"} /\ total_records >= 1) =>
        /\ total_chunks = CeilDiv(total_records, chunk_size)
        /\ \A i, j \in 1..Len(fetched) : i # j => fetched[i] \cap fetched[j] = {}
        /\ UNION {fetched[i] : i \in 1..Len(fetched)}
              = 1..Min(chunk_num * chunk_size, total_records)
        /\ \A i \in 1..Len(windows) :
              /\ windows[i] = <<(i - 1) * chunk_size, i * chunk_size>>
              /\ fetched[i] = {r \in 1..total_records :
                                  r > windows[i][1] /\ r <= windows[i][2]}
        /\ scan_pc = "done" =>
              /\ Len(windows) = total_chunks
              /\ \A r \in 1..total_records :
                    Cardinality({i \in 1..Len(fetched) : r \in fetched[i]}) = 1

\* a scan of more than one chunk whose last chunk is partial has finished
ChunkCoverageWitness ==
    /\ scan_pc = "done"
    /\ total_chunks >= 3
    /\ chunk_size = CHUNK_SIZE
    /\ total_records % chunk_size # 0

(***************************************************************************)
(* C2: in a cross-source audit over a fixed snapshot, the orphan records   *)
(* produced for a table are exactly the eligible rows scanned so far whose *)
(* trimmed UPC is not in the target catalog: one record per such row,      *)
(* carrying that row's primary key, and none for any other row.            *)
(***************************************************************************)
ScannedRows ==
    LET e == NumberedRecords(source_db[CurrentTable.name].rows)
    IN  SubSeq(e, 1, Min(a_chunk_num * CHUNK_SIZE, Len(e)))

IsOrphanRow(row) ==
    /\ NormalizedUpc(row.upc) # <<>>
    /\ NormalizedUpc(row.upc) \notin target_catalog

OrphanKeys(records) ==
    {<<records[i].table_name, records[i].primary_key, records[i].upc>> :
        i \in 1..Len(records)}

ExpectedOrphanKeys(table_name, rows) ==
    {<<table_name, rows[i].pk, NormalizedUpc(rows[i].upc)>> :
        i \in {j \in 1..Len(rows) : IsOrphanRow(rows[j])}}

OrphansAreExactlyAbsentRows ==
    (is_cross_db /\ audit_pc = "chunk") =>
        /\ OrphanKeys(table_orphans)
              = ExpectedOrphanKeys(CurrentTable.name, ScannedRows)
        /\ Len(table_orphans) = Len(SelectSeq(ScannedRows, IsOrphanRow))

(***************************************************************************)
(* C3: the set of existing UPCs accumulated over the consecutive batches   *)
(* of a chunk's UPC list equals what one membership query over the whole   *)
(* list returns; while the batches run it equals the result of one query   *)
(* over the part of the list sliced so far.                                *)
(***************************************************************************)
UnbatchedQuery(upcs) == BatchResults(TargetQuery(target_catalog, upcs))

BatchingEqualsSingleQuery ==
    /\ audit_pc = "classify" => existing_upcs = UnbatchedQuery(chunk_upcs)
    /\ audit_pc = "probe" =>
          existing_upcs = UnbatchedQuery(SubSeq(chunk_upcs, 1, batch_start))

\* a list longer than one batch has been probed; the UPC that ends the first
\* batch is absent from the target and the one that starts the second is in it
BatchingWitness ==
    /\ audit_pc = "classify"
    /\ Len(chunk_upcs) > 2 * MAX_PARAMS_PER_QUERY
    /\ chunk_upcs[MAX_PARAMS_PER_QUERY] \notin existing_upcs
    /\ chunk_upcs[MAX_PARAMS_PER_QUERY + 1] \in existing_upcs

BatchOf(i) == ((i - 1) \div UPDATE_BATCH_SIZE) + 1

FailedBatchIsolated ==
    /\ Len(all_results) = Min(batch_num * UPDATE_BATCH_SIZE, Len(updates))
    /\ \A i \in 1..Len(all_results) :
          LET r == all_results[i]
          IN  /\ r.table_name = updates[i].table_name
              /\ r.primary_key = updates[i].primary_key
              /\ BatchOf(i) \in failed_batches =>
                    /\ ~r.success
                    /\ r.error = ConnectError
                    /\ r.updated_upc = NoneUPC
              /\ BatchOf(i) \notin failed_batches =>
                    /\ r.success = (i \notin raised)
                    /\ r.success =>
                          /\ r.updated_upc = updates[i].items_tbl_upc
                          /\ detail_db[RowKey(updates[i])] = updates[i].items_tbl_upc
    /\ upd_pc = "returned" =>
          /\ upd_result[1] = TRUE
          /\ upd_result[3] = all_results
          /\ Len(upd_result[3]) = Len(updates)
          /\ \A b \in 1..TotalBatches :
                \E k \in 1..Len(upd_events) :
                    /\ upd_events[k].status = "updating_batch"
                    /\ upd_events[k].batch_number = b

\* the wrapper has returned after three sub-batches of which the second
\* failed at connection level and the third was executed
FailedBatchIsolatedWitness ==
    /\ upd_pc = "returned"
    /\ TotalBatches = 3
    /\ failed_batches = {2}
    /\ all_results[1].success
    /\ ~all_results[UPDATE_BATCH_SIZE + 1].success
    /\ all_results[Len(updates)].success

(***************************************************************************)
(* C7.  In every batch_complete event, total_updated is the number of      *)
(* rows that succeeded and total_failed the number of rows that failed in  *)
(* the sub-batches processed so far, so that their sum is the number of    *)
(* updates processed so far.                                               *)
(***************************************************************************)
ProcessedAfter(b) == Min(b * UPDATE_BATCH_SIZE, Len(updates))

RunningTotalsExact ==
    \A k \in 1..Len(upd_events) :
        LET e == upd_events[k]
        IN  e.status = "batch_complete" =>
               LET done == ProcessedAfter(e.batch_number)
               IN  /\ e.total_updated =
                         Cardinality({i \in 1..done : all_results[i].success})
                   /\ e.total_failed =
                         Cardinality({i \in 1..done : ~all_results[i].success})
                   /\ e.total_updated + e.total_failed = done

(***************************************************************************)
(* C8.  While the caller is connected, the progress events forwarded so    *)
(* far, followed by the event the consumer holds and by the events still   *)
(* in the queue, are exactly the events the worker pushed, in the order it *)
(* pushed them: none is lost, forwarded twice or reordered, whatever       *)
(* keep-alives lie between them.                                           *)
(***************************************************************************)
IsProgress(m) == m.type = "progress"
IsTerminal(m) == m.type \in {"complete", "error"}

ForwardedEvents ==
    LET progress == SelectSeq(sent, IsProgress)
    IN  [i \in 1..Len(progress) |-> progress[i].event]

InHand == IF progress_data = NoEvent THEN <<>> ELSE <<progress_data>>

ForwardedInPushOrder ==
    connected => ForwardedEvents \o InHand \o progress_queue = pushed

\* all the events of a worker have been forwarded, with a keep-alive
\* between two of them
ForwardedInPushOrderWitness ==
    /\ connected
    /\ consumer_pc = "closed"
    /\ Len(pushed) = MaxEvents
    /\ ForwardedEvents = pushed
    /\ \E i, j, k \in 1..Len(sent) :
          /\ i < j
          /\ j < k
          /\ sent[i].type = "progress"
          /\ sent[j].type = "ping"
          /\ sent[k].type = "progress"

(***************************************************************************)
(* C9.  When the terminal message has been emitted the queue is empty and  *)
(* every event the worker pushed has been forwarded before it, the events  *)
(* left in the queue when the worker finished included.                    *)
(***************************************************************************)
HasTerminal == sent # <<>> /\ IsTerminal(sent[Len(sent)])

QueueDrainedBeforeTerminal ==
    HasTerminal =>
        /\ future_done
        /\ progress_queue = <<>>
        /\ progress_data = NoEvent
        /\ ForwardedEvents = pushed

\* the terminal message has followed events that only the drain loop
\* could forward
QueueDrainedBeforeTerminalWitness ==
    /\ HasTerminal
    /\ drained >= 2
    /\ Len(pushed) = MaxEvents

(***************************************************************************)
(* C10.  A stream carries at most one terminal message and nothing after   *)
(* it; a stream that has ended with its caller connected carries exactly   *)
(* one, which is 'complete' with the summary if the worker succeeded and   *)
(* 'error' with a message if it did not.                                   *)
(***************************************************************************)
Terminals == {i \in 1..Len(sent) : IsTerminal(sent[i])}

LookupWithinLimit ==
    /\ last_query.kind = "probe" => last_query.params <= MAX_PARAMS_PER_QUERY
    /\ d_last_query.kind = "probe" => d_last_query.params <= MAX_PARAMS_PER_QUERY
    /\ m_last_query.kind = "matcher" => m_last_query.params <= BATCH_SIZE
    /\ \A q \in {last_query, d_last_query, m_last_query} :
          q.params <= MAX_PARAMS_PER_QUERY

\* a comparison has just probed the catalog with a full batch out of a
\* chunk of more UPCs than one query may carry
LookupWithinLimitWitness ==
    /\ d_last_query.kind = "probe"
    /\ d_last_query.params = MAX_PARAMS_PER_QUERY
    /\ Len(d_chunk_upcs) > 2 * MAX_PARAMS_PER_QUERY
    /\ d_batch_start = MAX_PARAMS_PER_QUERY

(***************************************************************************)
(* C11.  A keep-alive is emitted only by a poll that found the queue       *)
(* empty, and such a poll emits one exactly when at least                  *)
(* HEARTBEAT_INTERVAL seconds have passed since the latest progress event  *)
(* or keep-alive was forwarded (since the start of the relay if there is   *)
(* none): never earlier, and never by a poll that took an event.           *)
(***************************************************************************)
PingAdded ==
    /\ Len(sent') = Len(sent) + 1
    /\ sent'[Len(sent')].type = "ping"

KeepAliveDue == time_now - last_forward_time >= HEARTBEAT_INTERVAL

KeepAliveStep ==
    /\ PingAdded =>
          /\ consumer_pc = "empty"
          /\ progress_data = NoEvent
          /\ KeepAliveDue
    /\ (consumer_pc = "empty" /\ consumer_pc' = "check" /\ KeepAliveDue) => PingAdded
    /\ (consumer_pc \in {"get", "yield"} /\ consumer_pc' \in {"yield", "check"}) => ~PingAdded

KeepAliveWhenDue == [][KeepAliveStep]_vars

\* while the worker runs, a second keep-alive has just been emitted one
\* interval after the first, which followed a progress event
KeepAliveWhenDueWitness ==
    /\ ~future_done
    /\ connected
    /\ Len(sent) >= 3
    /\ sent[Len(sent) - 2].type = "progress"
    /\ sent[Len(sent) - 1].type = "ping"
    /\ sent[Len(sent)].type = "ping"
    /\ last_forward_time = time_now

\* C12: once the caller has disconnected the consumer forwards nothing more
\* (no progress message, no keep-alive, no terminal message), and a worker
\* that was still running when the caller left is not cancelled: it goes on
\* to return, with one result per requested update and every update either
\* executed against the database or part of a batch that failed.
UpdateAttempted(i) ==
    \/ detail_db[RowKey(updates[i])] = updates[i].items_tbl_upc
    \/ i \in raised
    \/ ((i - 1) \div UPDATE_BATCH_SIZE) + 1 \in failed_batches

WorkerRanToEnd ==
    /\ upd_pc = "returned"
    /\ future_done
    /\ Len(upd_result[3]) = Len(updates)
    /\ \A i \in 1..Len(updates) : UpdateAttempted(i)

DisconnectLeavesWorkerRunning ==
    /\ [][~connected => sent' = sent]_vars
    /\ (~connected /\ ~future_done) ~> WorkerRanToEnd

\* the caller left after the first event only; the worker did both batches
DisconnectLeavesWorkerRunningWitness ==
    /\ ~connected
    /\ pushed_at_disconnect = 1
    /\ Len(updates) = UPDATE_BATCH_SIZE + 1
    /\ WorkerRanToEnd
    /\ Len(pushed) > pushed_at_disconnect
    /\ Len(sent) <= 1

(***************************************************************************)
(* C13: a detail table that does not exist in the source database does not *)
(* make the audit fail.  The tables are begun in the order of the table    *)
(* list; the checking_table event of a missing table is followed at once   *)
(* by a table_skipped event for that table; and an audit whose connections *)
(* were opened goes through every table and returns success.               *)
(***************************************************************************)
IsCheckingTable(ev) == ev.status = "checking_table"

CheckedTables == SelectSeq(audit_events, IsCheckingTable)

\* position in audit_events of the checking_table event of the i-th table
CheckingPos(i) ==
    CHOOSE p \in 1..Len(audit_events) :
        /\ IsCheckingTable(audit_events[p])
        /\ audit_events[p].table_name = AuditTables[i].name

IsMissingTable(i) == ~source_db[AuditTables[i].name].exists

MissingTableIsSkipped ==
    /\ Len(CheckedTables) <= Len(AuditTables)
    /\ \A i \in 1..Len(CheckedTables) : CheckedTables[i].table_name = AuditTables[i].name
    /\ \A i \in 1..Len(AuditTables) :
          (i < table_idx /\ IsMissingTable(i)) =>
              /\ i <= Len(CheckedTables)
              /\ CheckingPos(i) < Len(audit_events)
              /\ audit_events[CheckingPos(i) + 1]
                    = [status |-> "table_skipped", table_name |-> AuditTables[i].name]
    /\ (audit_pc = "returned" /\ table_idx >= 1) =>
          /\ audit_result[1] = TRUE
          /\ Len(CheckedTables) = Len(AuditTables)

\* the first table is missing, the second one holds an orphan, which the
\* successful audit returns
MissingTableIsSkippedWitness ==
    /\ audit_pc = "returned"
    /\ IsMissingTable(1)
    /\ faults_left = MaxFaults
    /\ audit_result[1] = TRUE
    /\ Len(audit_result[3]) = 1
    /\ audit_result[3][1].table_name = AuditTables[2].name

(***************************************************************************)
(* C14: when a query of a later chunk of an existing table fails after an  *)
(* earlier chunk of that table succeeded, the audit returns an error and   *)
(* not success.                                                            *)
(***************************************************************************)
\* a table was given up right after one of its chunks had been reported
FailedAfterChunk(p) ==
    /\ audit_events[p].status = "chunk_progress"
    /\ audit_events[p + 1].status = "table_skipped"
    /\ audit_events[p + 1].table_name = audit_events[p].table_name

ChunkQueryFailed == \E p \in 1..(Len(audit_events) - 1) : FailedAfterChunk(p)

ChunkFailureFailsAudit ==
    (audit_pc = "returned" /\ ChunkQueryFailed) => audit_result[1] = FALSE

(***************************************************************************)
(* C15: a batch of the membership test that fails is propagated and makes  *)
(* the whole operation fail.  The step in which a membership query of the  *)
(* cross-source audit or of the cross-store diff fails ends the run with   *)
(* a failure, and adds no record classified from the partial set.          *)
(***************************************************************************)
AuditMembershipBatchFails == audit_pc = "probe" /\ faults_left' < faults_left

DiffMembershipBatchFails == diff_pc = "probe" /\ d_faults_left' < d_faults_left

FailedMembershipStep ==
    /\ AuditMembershipBatchFails =>
          /\ audit_pc' = "returned"
          /\ audit_result'[1] = FALSE
          /\ orphaned_records' = orphaned_records
    /\ DiffMembershipBatchFails =>
          /\ diff_pc' = "returned"
          /\ diff_result'[1] = FALSE
          /\ missing_products' = missing_products

MembershipFailurePropagates == [][FailedMembershipStep]_vars

(***************************************************************************)
(* C16: when a connection of the audit cannot be opened, the audit returns *)
(* failure with an error message, an empty result list and a zero count;   *)
(* no table and no chunk is processed, so no event is pushed; the stream   *)
(* never sends 'complete', and a stream that ends while the caller is      *)
(* connected ends with 'error' carrying that message.                      *)
(***************************************************************************)
ConnectionFailed == audit_pc = "returned" /\ table_idx = 0

ConnectFailureEndsInError ==
    ConnectionFailed =>
        /\ audit_result[1] = FALSE
        /\ audit_result[2] \notin {"", NoneText}
        /\ audit_result[3] = <<>>
        /\ audit_result[4] = 0
        /\ audit_events = <<>>
        /\ tables_checked = 0
        /\ source_db = [t \in TableNames |-> Unread]
        /\ pushed = <<>>
        /\ \A i \in 1..Len(sent) : sent[i].type # "complete"
        /\ (consumer_pc = "closed" /\ connected) =>
              /\ sent = <<StartingMessage, ErrorMessage(audit_result[2])>>

\* the stream of an audit that could not connect has ended with 'error'
ConnectFailureEndsInErrorWitness ==
    /\ ConnectionFailed
    /\ connected
    /\ consumer_pc = "closed"
    /\ IsTerminal(sent[Len(sent)])
    /\ sent[Len(sent)].type = "error"
    /\ sent[Len(sent)].message = "connection failed"

(***************************************************************************)
(* C17: in the product-id strategy a record whose product_id is null gets, *)
(* in the step that processes its batch, exactly one match, with           *)
(* match_found = FALSE, no catalog UPC and match_field_value "N/A",        *)
(* whatever the catalog and the other records hold; and the lookup of the  *)
(* batch has one parameter per record with a product_id, none when the     *)
(* batch has no such record.                                               *)
(***************************************************************************)
MatchesOf(list, record) ==
    {j \in 1..Len(list) : /\ list[j].table_name = record.table_name
                          /\ list[j].primary_key = record.primary_key}

NullProductIdStep ==
    (match_type = "product_id" /\ match_pc = "batch"
        /\ m_batch_start < Len(m_orphaned_records)) =>
        LET hi     == MatchBatchEnd(m_batch_start, Len(m_orphaned_records))
            nulls  == {i \in (m_batch_start + 1)..hi :
                          m_orphaned_records[i].product_id = NoneId}
            keyed  == (hi - m_batch_start) - Cardinality(nulls)
            added  == SubSeq(matches', Len(matches) + 1, Len(matches'))
        IN  /\ IF keyed = 0 THEN m_last_query' = m_last_query
               ELSE m_last_query' = [kind |-> "matcher", params |-> keyed]
            /\ m_batch_start' > m_batch_start =>
                  \A i \in nulls :
                      /\ Cardinality(MatchesOf(added, m_orphaned_records[i])) = 1
                      /\ \A j \in MatchesOf(added, m_orphaned_records[i]) :
                            added[j] = [table_name        |-> m_orphaned_records[i].table_name,
                                        primary_key       |-> m_orphaned_records[i].primary_key,
                                        orphaned_upc      |-> m_orphaned_records[i].upc,
                                        match_found       |-> FALSE,
                                        items_tbl_upc     |-> NullUPC,
                                        match_field_value |-> "N/A"]

NullProductIdUnmatched == [][NullProductIdStep]_vars

\* a request with a record without product_id and a record that was matched
NullProductIdUnmatchedWitness ==
    /\ match_type = "product_id"
    /\ match_pc = "returned"
    /\ match_result[1] = TRUE
    /\ \E i \in 1..Len(m_orphaned_records) : m_orphaned_records[i].product_id = NoneId
    /\ \E j \in 1..Len(matches) : matches[j].match_found
    /\ \E j \in 1..Len(matches) : matches[j].match_field_value = "N/A"

(***************************************************************************)
(* C18: in the description strategy, after a successful run, a record      *)
(* whose description is non-empty, not "Unknown" and the                   *)
(* ProductDescription of exactly one catalog row with a non-empty UPC u    *)
(* has exactly one match, with match_found = TRUE, items_tbl_upc = u and   *)
(* match_field_value = the description; a record whose description is      *)
(* empty, null or "Unknown" has exactly one match, with match_found =      *)
(* FALSE and match_field_value "N/A".                                      *)
(***************************************************************************)
RowsDescribed(d) ==
    {row \in items_tbl : row.ProductDescription = d
                         /\ row.ProductUPC \notin {NullUPC, <<>>}}

DescriptionMatchOf(record) ==
    LET d == record.description
    IN  IF d \in {NoneText, "", "Unknown"}
        THEN {[table_name        |-> record.table_name,
               primary_key       |-> record.primary_key,
               orphaned_upc      |-> record.upc,
               match_found       |-> FALSE,
               items_tbl_upc     |-> NullUPC,
               match_field_value |-> "N/A"]}
        ELSE {[table_name        |-> record.table_name,
               primary_key       |-> record.primary_key,
               orphaned_upc      |-> record.upc,
               match_found       |-> TRUE,
               items_tbl_upc     |-> row.ProductUPC,
               match_field_value |-> d] : row \in RowsDescribed(d)}

DescriptionMatchIsUnique ==
    (match_type = "description" /\ match_pc = "returned" /\ match_result[1] = TRUE) =>
        \A i \in 1..Len(m_orphaned_records) :
            LET record == m_orphaned_records[i]
                d      == record.description
            IN  (d \in {NoneText, "", "Unknown"} \/ Cardinality(RowsDescribed(d)) = 1) =>
                    /\ Cardinality(MatchesOf(match_result[3], record)) = 1
                    /\ \A j \in MatchesOf(match_result[3], record) :
                          match_result[3][j] \in DescriptionMatchOf(record)

\* one record matched through its description, one without usable description
DescriptionMatchIsUniqueWitness ==
    /\ match_type = "description"
    /\ match_pc = "returned"
    /\ match_result[1] = TRUE
    /\ \E i \in 1..Len(m_orphaned_records) :
          /\ m_orphaned_records[i].description = "Widget A"
          /\ Cardinality(RowsDescribed("Widget A")) = 1
    /\ \E j \in 1..Len(matches) :
          matches[j].match_found /\ matches[j].match_field_value = "Widget A"
    /\ \E j \in 1..Len(matches) : matches[j].match_field_value = "N/A"

(***************************************************************************)
(* C19: a successful run of either strategy returns exactly one match per  *)
(* input record, carrying the record's table_name, primary_key and UPC, so *)
(* the list of matches is as long as the request; while the run goes on    *)
(* this holds of the records of the batches processed so far.              *)
(***************************************************************************)
OneMatchPerRecord ==
    /\ match_pc \in {"batch", "returned"} =>
          /\ Len(matches) = Min(m_batch_start, Len(m_orphaned_records))
          /\ \A i \in 1..Len(matches) :
                LET record == m_orphaned_records[i]
                IN  /\ Cardinality(MatchesOf(matches, record)) = 1
                    /\ \A j \in MatchesOf(matches, record) :
                          matches[j].orphaned_upc = record.upc
    /\ (match_pc = "returned" /\ match_result[1] = TRUE) =>
          /\ match_result[3] = matches
          /\ Len(match_result[3]) = Len(m_orphaned_records)

\* a request of one full batch and one record more, with records without a
\* key among those with one
OneMatchPerRecordWitness ==
    /\ match_pc = "returned"
    /\ match_result[1] = TRUE
    /\ Len(m_orphaned_records) = BATCH_SIZE + 1
    /\ Len(match_result[3]) = BATCH_SIZE + 1
    /\ \E j \in 1..BATCH_SIZE : match_result[3][j].match_field_value = "N/A"
    /\ \E j \in 1..BATCH_SIZE : match_result[3][j].match_found

(***************************************************************************)
(* C20: there is one 'checked' event per processed batch, emitted after    *)
(* the matches of the batch were appended; the k-th event carries the end  *)
(* index of the k-th batch as 'current' (strictly increasing, and equal to *)
(* 'total' on the last event of a successful run) and 'matched' tells      *)
(* whether a record of the k-th batch, and of no other, was matched.       *)
(***************************************************************************)
BatchesDone == (Min(m_batch_start, Len(m_orphaned_records)) + BATCH_SIZE - 1) \div BATCH_SIZE

OneCheckedEventPerBatch ==
    match_pc \in {"batch", "returned"} =>
        /\ Len(match_events) = BatchesDone
        /\ \A k \in 1..Len(match_events) :
              LET ev == match_events[k]
                  lo == (k - 1) * BATCH_SIZE
                  hi == Min(k * BATCH_SIZE, Len(m_orphaned_records))
              IN  /\ ev.status = "checked"
                  /\ ev.current = hi
                  /\ ev.total = Len(m_orphaned_records)
                  /\ Len(matches) >= hi
                  /\ ev.matched = (\E i \in (lo + 1)..hi :
                                      \E j \in MatchesOf(matches, m_orphaned_records[i]) :
                                          matches[j].match_found)
                  /\ k > 1 => match_events[k - 1].current < ev.current
        /\ (match_pc = "returned" /\ match_result[1] = TRUE /\ m_orphaned_records # <<>>) =>
              match_events[Len(match_events)].current = Len(m_orphaned_records)

\* two batches: a record of the first was matched, the record of the second
\* was not
OneCheckedEventPerBatchWitness ==
    /\ match_pc = "returned"
    /\ match_result[1] = TRUE
    /\ Len(match_events) = 2
    /\ match_events[1].matched
    /\ ~match_events[2].matched
    /\ match_events[2].current = BATCH_SIZE + 1

(***************************************************************************)
(* C21: a comparison run with include_discontinued = false never records   *)
(* a missing product for a primary product whose Discontinued flag is set, *)
(* whether or not its UPC is in the comparison store, and does not count   *)
(* such a product in total_checked; with include_discontinued = true a     *)
(* discontinued product is fetched and reported like any other.            *)
(***************************************************************************)
IsDiscontinued(product) == product.Discontinued = 1

PassesOtherFilters(product) ==
    /\ Truthy(product.ProductUPC)
    /\ (category_ids # <<>> => product.CateID \in Range(category_ids))
    /\ (subcategory_ids # <<>> => product.SubCateID \in Range(subcategory_ids))

DiscontinuedNeverReported ==
    /\ ~include_discontinued =>
          /\ \A k \in 1..Len(missing_products) :
                ~IsDiscontinued(primary_items[missing_products[k].product_id])
          /\ total_checked <= Cardinality({i \in 1..Len(primary_items) :
                                              ~IsDiscontinued(primary_items[i])})
    /\ (include_discontinued /\ diff_pc = "returned" /\ diff_result[1] = TRUE) =>
          /\ \A i \in 1..Len(primary_items) :
                (/\ IsDiscontinued(primary_items[i])
                 /\ PassesOtherFilters(primary_items[i])
                 /\ Strip(primary_items[i].ProductUPC) # <<>>
                 /\ Strip(primary_items[i].ProductUPC) \notin comparison_catalog)
                => \E k \in 1..Len(diff_result[3]) :
                      /\ diff_result[3][k].product_id = i
                      /\ diff_result[3][k].discontinued
          /\ diff_result[4] = Cardinality({i \in 1..Len(primary_items) :
                                              PassesOtherFilters(primary_items[i])})

\* a discontinued product whose UPC the comparison store lacks, left out of a
\* run without discontinued products that did report another product
DiscontinuedNeverReportedWitness ==
    /\ ~include_discontinued
    /\ diff_pc = "returned"
    /\ diff_result[1] = TRUE
    /\ Len(diff_result[3]) = 1
    /\ diff_result[4] = 1
    /\ Len(primary_items) = 2
    /\ IsDiscontinued(primary_items[2])
    /\ PassesOtherFilters(primary_items[2])
    /\ Strip(primary_items[2].ProductUPC) # <<>>
    /\ Strip(primary_items[2].ProductUPC) \notin comparison_catalog

(***************************************************************************)
(* C22: a successful comparison returns exactly one record for each        *)
(* primary product that passes the filters and whose trimmed UPC is not in *)
(* the comparison catalog, products that share a UPC included, and no      *)
(* record for any other product; the record carries the id, description,   *)
(* category name, sub-category name and Discontinued flag of its product.  *)
(***************************************************************************)
PassesFilters(product) ==
    /\ PassesOtherFilters(product)
    /\ (~include_discontinued => ~IsDiscontinued(product))

AbsentFromComparison(product) ==
    /\ Strip(product.ProductUPC) # <<>>
    /\ Strip(product.ProductUPC) \notin comparison_catalog

RecordsOf(records, product_id) ==
    {k \in 1..Len(records) : records[k].product_id = product_id}

CarriesOwnDetails(record, product) ==
    /\ record.product_upc = Strip(product.ProductUPC)
    /\ record.product_description =
          (IF product.ProductDescription \in {NoneText, ""}
           THEN "Unknown" ELSE product.ProductDescription)
    /\ record.category_name =
          (IF product.CateID = 1 THEN "Drinks" ELSE "Uncategorized")
    /\ record.subcategory_name =
          (IF product.SubCateID = 1 THEN "Soda" ELSE "None")
    /\ record.discontinued = IsDiscontinued(product)

OneRecordPerMissingProduct ==
    (diff_pc = "returned" /\ diff_result[1] = TRUE) =>
        /\ \A i \in 1..Len(primary_items) :
              LET product == primary_items[i]
                  found   == RecordsOf(diff_result[3], i)
              IN  IF PassesFilters(product) /\ AbsentFromComparison(product)
                  THEN /\ Cardinality(found) = 1
                       /\ \A k \in found : CarriesOwnDetails(diff_result[3][k], product)
                  ELSE found = {}
        /\ \A k \in 1..Len(diff_result[3]) :
              diff_result[3][k].product_id \in 1..Len(primary_items)

\* two products with the same UPC, which the comparison store lacks, are
\* both reported, each with its own details
OneRecordPerMissingProductWitness ==
    /\ diff_pc = "returned"
    /\ diff_result[1] = TRUE
    /\ Len(primary_items) = 2
    /\ Strip(primary_items[1].ProductUPC) = Strip(primary_items[2].ProductUPC)
    /\ primary_items[1].ProductUPC # primary_items[2].ProductUPC
    /\ Len(diff_result[3]) = 2
    /\ diff_result[3][1].product_id = 1
    /\ diff_result[3][2].product_id = 2
    /\ diff_result[3][1].product_upc = diff_result[3][2].product_upc
    /\ diff_result[3][1].category_name # diff_result[3][2].category_name

(***************************************************************************)
(* C23: in a comparison run the 'starting' event, with total_products and  *)
(* total_chunks, comes before every chunk_progress event, and each chunk   *)
(* that was processed has its chunk_progress event, in increasing chunk    *)
(* order, with total_missing the number of missing products recorded so    *)
(* far and products_checked the number of products fetched so far, which   *)
(* is total_products on the last chunk.                                    *)
(***************************************************************************)
ProgressPerChunk ==
    diff_events # <<>> =>
        /\ diff_events[1].status = "starting"
        /\ diff_events[1].total_products = total_products
        /\ diff_events[1].total_chunks = TotalChunks(total_products, CHUNK_SIZE)
        /\ Len(diff_events) = 1 + d_chunk_num
        /\ \A k \in 2..Len(diff_events) :
              /\ diff_events[k].status = "chunk_progress"
              /\ diff_events[k].chunk = k - 1
              /\ diff_events[k].products_checked = Min((k - 1) * CHUNK_SIZE, total_products)
              /\ diff_events[k].total_missing <= Len(missing_products)
        /\ Len(diff_events) > 1 =>
              diff_events[Len(diff_events)].total_missing = Len(missing_products)
        /\ (diff_pc = "returned" /\ diff_result[1] = TRUE) =>
              /\ Len(diff_events) = 1 + d_total_chunks
              /\ diff_events[Len(diff_events)].products_checked = total_products

(***************************************************************************)
(* C24: a table with N >= 1 eligible rows is audited chunk after chunk:    *)
(* its chunk_progress events carry chunk = 1, 2, ... in that order, with   *)
(* records_checked = min(chunk * CHUNK_SIZE, N) and a total_orphans that   *)
(* never decreases and equals the number of orphan records appended for    *)
(* the table so far; a table that is completed has ceil(N / CHUNK_SIZE)    *)
(* of them.                                                                *)
(***************************************************************************)
ChunkEventsOf(name) ==
    LET OfTable(ev) == ev.status = "chunk_progress" /\ ev.table_name = name
    IN  SelectSeq(audit_events, OfTable)

IsCompleted(name) ==
    \E p \in 1..Len(audit_events) :
        audit_events[p].status = "table_complete" /\ audit_events[p].table_name = name

EligibleCount(name) ==
    Cardinality({r \in 1..Len(source_db[name].rows) :
                    source_db[name].rows[r].upc \notin {NullUPC, <<>>}})

HasEligibleRow(name) ==
    \E r \in 1..Len(source_db[name].rows) :
        source_db[name].rows[r].upc \notin {NullUPC, <<>>}

OrphansAppended(records, name) ==
    Cardinality({k \in 1..Len(records) : records[k].table_name = name})

ChunkEventsInOrder ==
    \A name \in TableNames :
        LET n    == EligibleCount(name)
            evs  == ChunkEventsOf(name)
            ceil == (n + CHUNK_SIZE - 1) \div CHUNK_SIZE
        IN  IF evs = <<>>
            THEN /\ OrphansAppended(orphaned_records, name) = 0
                 /\ IsCompleted(name) => ~HasEligibleRow(name)
            ELSE /\ Len(evs) <= ceil
                 /\ \A k \in 1..Len(evs) :
                       /\ evs[k].chunk = k
                       /\ evs[k].total_chunks = ceil
                       /\ evs[k].total_records = n
                       /\ evs[k].records_checked = Min(k * CHUNK_SIZE, n)
                       /\ k > 1 => evs[k - 1].total_orphans <= evs[k].total_orphans
                       /\ k > 1 => evs[k].total_orphans =
                                      evs[k - 1].total_orphans + evs[k].orphans_in_chunk
                       /\ k = 1 => evs[k].total_orphans = evs[k].orphans_in_chunk
                 /\ OrphansAppended(orphaned_records, name) = evs[Len(evs)].total_orphans
                 /\ IsCompleted(name) => Len(evs) = ceil

\* a completed table of one full chunk and one row more, with orphans in
\* both chunks
ChunkEventsInOrderWitness ==
    \E name \in TableNames :
        /\ IsCompleted(name)
        /\ EligibleCount(name) = CHUNK_SIZE + 1
        /\ Len(ChunkEventsOf(name)) = 2
        /\ ChunkEventsOf(name)[1].records_checked = CHUNK_SIZE
        /\ ChunkEventsOf(name)[2].records_checked = CHUNK_SIZE + 1
        /\ 0 < ChunkEventsOf(name)[1].total_orphans
        /\ ChunkEventsOf(name)[1].total_orphans < ChunkEventsOf(name)[2].total_orphans

(***************************************************************************)
(* C25: the events of a table are one checking_table event, then its       *)
(* chunk_progress events, then exactly one of table_complete and           *)
(* table_skipped, and the tables follow each other without interleaving.   *)
(* A table without eligible rows that is completed has no chunk_progress   *)
(* event and orphaned_count 0; the orphaned_count of a table_complete      *)
(* event is the number of records of that table in the returned list, and  *)
(* the returned tables_checked is the number of table_complete events.     *)
(***************************************************************************)
IsTableEnd(ev) == ev.status \in {"table_complete", "table_skipped"}

IsTableComplete(ev) == ev.status = "table_complete"

TableEndsOf(name) ==
    {p \in 1..Len(audit_events) :
        IsTableEnd(audit_events[p]) /\ audit_events[p].table_name = name}

TableEventsWellFormed ==
    /\ \A p \in 1..Len(audit_events) :
          LET ev == audit_events[p]
          IN  /\ ev.status \in {"checking_table", "chunk_progress",
                                "table_complete", "table_skipped"}
              /\ IF IsCheckingTable(ev)
                 THEN p = 1 \/ IsTableEnd(audit_events[p - 1])
                 ELSE /\ p > 1
                      /\ ~IsTableEnd(audit_events[p - 1])
                      /\ audit_events[p - 1].table_name = ev.table_name
    /\ \A i \in 1..Len(AuditTables) :
          LET name == AuditTables[i].name
          IN  /\ Cardinality(TableEndsOf(name)) =
                    (IF i < table_idx THEN 1 ELSE 0)
              /\ \A p \in TableEndsOf(name) :
                    IsTableComplete(audit_events[p]) =>
                       /\ audit_events[p].orphaned_count =
                             OrphansAppended(orphaned_records, name)
                       /\ ~HasEligibleRow(name) =>
                             /\ audit_events[p].orphaned_count = 0
                             /\ ChunkEventsOf(name) = <<>>
              /\ ~HasEligibleRow(name) => ChunkEventsOf(name) = <<>>
    /\ tables_checked = Len(SelectSeq(audit_events, IsTableComplete))
    /\ (audit_pc = "returned" /\ audit_result[1] = TRUE) =>
          /\ audit_result[4] = Len(SelectSeq(audit_events, IsTableComplete))
          /\ \A p \in 1..Len(audit_events) :
                IsTableComplete(audit_events[p]) =>
                   audit_events[p].orphaned_count =
                      OrphansAppended(audit_result[3], audit_events[p].table_name)

\* a returned audit with a completed table that has an orphan, a completed
\* table without eligible rows and a skipped table
TableEventsWellFormedWitness ==
    /\ audit_pc = "returned"
    /\ audit_result[1] = TRUE
    /\ \E p, q, r \in 1..Len(audit_events) :
          /\ IsTableComplete(audit_events[p])
          /\ audit_events[p].orphaned_count = 1
          /\ IsTableComplete(audit_events[q])
          /\ ~HasEligibleRow(audit_events[q].table_name)
          /\ audit_events[r].status = "table_skipped"
    /\ audit_result[4] = Len(AuditTables) - 1

QuotationTables == {"QuotationDetails", "QuotationsDetails_tbl"}

ConfiguredOrder ==
    << "QuotationsDetails_tbl", "PurchaseOrdersDetails_tbl", "InvoicesDetails_tbl",
       "CreditMemosDetails_tbl", "PurchasesReturnsDetails_tbl", "QuotationDetails" >>

Supplied(t) ==
    /\ t.target_host # NoneText
    /\ t.target_port # NoneId
    /\ t.target_database # NoneText
    /\ t.target_username # NoneText
    /\ t.target_password # NoneText

QuotationTablesLeftOut ==
    /\ is_cross_db => Supplied(target_params)
    /\ is_cross_db =>
          /\ \A p \in 1..Len(audit_events) :
                audit_events[p].table_name \notin QuotationTables
          /\ \A k \in 1..Len(orphaned_records) :
                orphaned_records[k].table_name \notin QuotationTables
          /\ \A name \in QuotationTables : source_db[name] = Unread
          /\ tables_checked <= 4
          /\ (audit_pc = "returned" /\ audit_result[1] = TRUE) =>
                /\ audit_result[4] <= 4
                /\ \A k \in 1..Len(audit_result[3]) :
                      audit_result[3][k].table_name \notin QuotationTables
    /\ ~is_cross_db =>
          /\ Len(CheckedTables) <= Len(ConfiguredOrder)
          /\ \A i \in 1..Len(CheckedTables) :
                CheckedTables[i].table_name = ConfiguredOrder[i]
          /\ (audit_pc = "returned" /\ audit_result[1] = TRUE) =>
                Len(CheckedTables) = Len(ConfiguredOrder)

\* an audit against a target that counted four tables and found an orphan
QuotationTablesLeftOutWitness ==
    /\ is_cross_db
    /\ audit_pc = "returned"
    /\ audit_result[1] = TRUE
    /\ audit_result[4] = 4
    /\ Len(audit_result[3]) >= 1
    /\ Len(CheckedTables) = 4

(***************************************************************************)
(* C28: the key column of the updater's UPDATE statement depends on the    *)
(* table name alone and has three outcomes: ProductID for Items_tbl, id    *)
(* for QuotationDetails, LineID for every other table; for each of the six *)
(* detail tables it is the key column the audit read the row's key from,   *)
(* so an update that succeeded changed the row the audit reported.         *)
(***************************************************************************)
ScannerPk(table_name) ==
    {DetailTables[k].pk : k \in {j \in 1..Len(DetailTables) :
                                    DetailTables[j].name = table_name}}

PkFieldMatchesScanner ==
    /\ \A name \in TableNames : ScannerPk(name) = {PkField(name)}
    /\ \A i \in 1..Len(updates) :
          LET name == updates[i].table_name
          IN  /\ PkField(name) = (CASE name = "Items_tbl"        -> "ProductID"
                                    [] name = "QuotationDetails" -> "id"
                                    [] OTHER                      -> "LineID")
              /\ name \in TableNames => ScannerPk(name) = {PkField(name)}
    /\ \A i \in 1..Len(all_results) :
          all_results[i].success =>
              detail_db[StoredKey(updates[i])] = updates[i].items_tbl_upc

\* a finished request that changed a row of QuotationDetails, a row of
\* Items_tbl and a row of a table keyed by LineID
PkFieldMatchesScannerWitness ==
    /\ upd_pc = "returned"
    /\ \E i, j, k \in 1..Len(all_results) :
          /\ updates[i].table_name = "QuotationDetails"
          /\ updates[j].table_name = "Items_tbl"
          /\ updates[k].table_name = "QuotationsDetails_tbl"
          /\ all_results[i].success
          /\ all_results[j].success
          /\ all_results[k].success
          /\ detail_db[<<"QuotationDetails", "id", updates[i].primary_key>>]
                = updates[i].items_tbl_upc
          /\ detail_db[<<"Items_tbl", "ProductID", updates[j].primary_key>>]
                = updates[j].items_tbl_upc
          /\ detail_db[<<"QuotationsDetails_tbl", "LineID", updates[k].primary_key>>]
                = updates[k].items_tbl_upc

(***************************************************************************)
(* C29: in both modes every orphan record carries a UPC that is neither    *)
(* null nor empty.  A source row whose UPC is null or empty, or, in        *)
(* cross-database mode, consists of whitespace only, yields no record, and *)
(* its UPC is not in chunk_upcs, the list the parameters of the membership *)
(* queries are cut from.                                                   *)
(***************************************************************************)
HasNoUpc(row) ==
    \/ row.upc = NullUPC
    \/ row.upc = <<>>
    \/ is_cross_db /\ \A i \in 1..Len(row.upc) : row.upc[i] = Blank

HasUpc(row) == ~HasNoUpc(row)

\* the place of a row in its table: the rows carry the keys 10, 20, ...
RowNumber(pk) == pk \div 10

UpcLessRowsIgnored ==
    /\ \A k \in 1..Len(orphaned_records) :
          LET record == orphaned_records[k]
              rows   == source_db[record.table_name].rows
          IN  /\ record.upc # NullUPC
              /\ record.upc # <<>>
              /\ LET r == RowNumber(record.primary_key)
                 IN  /\ r \in 1..Len(rows)
                     /\ rows[r].pk = record.primary_key
                     /\ HasUpc(rows[r])
    /\ (is_cross_db /\ audit_pc \in {"probe", "classify"}) =>
          LET kept == SelectSeq(chunk_rows, HasUpc)
          IN  /\ chunk_upcs = [i \in 1..Len(kept) |-> Strip(kept[i].upc)]
              /\ \A i \in 1..Len(chunk_upcs) : chunk_upcs[i] \notin {NullUPC, <<>>}
    /\ (audit_pc = "returned" /\ audit_result[1] = TRUE) =>
          \A k \in 1..Len(audit_result[3]) :
              audit_result[3][k].upc \notin {NullUPC, <<>>}

\* a cross-database audit of a table with a whitespace-only UPC and an
\* orphaned UPC: one record
UpcLessRowsIgnoredWitness ==
    /\ is_cross_db
    /\ audit_pc = "returned"
    /\ audit_result[1] = TRUE
    /\ Len(audit_result[3]) = 1
    /\ \E name \in TableNames :
          /\ audit_result[3][1].table_name = name
          /\ Len(source_db[name].rows) = 2
          /\ \E r \in 1..2 : source_db[name].rows[r].upc = <<Blank>>

(***************************************************************************)
(* C30: the 'complete' message of the audit stream holds no orphan record  *)
(* whose UPC is on the exclusion list of the source store and holds every  *)
(* record the audit found whose UPC is not on it; its total_orphaned is    *)
(* the number of records it holds.  The list is applied after the scan:    *)
(* the progress events and tables_checked are those of the unfiltered      *)
(* audit.                                                                  *)
(***************************************************************************)
Kept(records) == {k \in 1..Len(records) : records[k].upc \notin excluded_upcs}

ExcludedLeftOutOfComplete ==
    /\ result_data # NoData =>
          LET found == audit_result[3]
              held  == result_data.orphaned_records
          IN  /\ sent[Len(sent)] = CompleteMessage(result_data.total_orphaned)
              /\ \A j \in 1..Len(held) : held[j].upc \notin excluded_upcs
              /\ \A j \in 1..Len(held) : \E k \in Kept(found) : found[k] = held[j]
              /\ \A k \in Kept(found) : \E j \in 1..Len(held) : held[j] = found[k]
              /\ Len(held) = Cardinality(Kept(found))
              /\ result_data.total_orphaned = Len(held)
              /\ result_data.tables_checked = audit_result[4]
              /\ result_data.tables_checked = Len(SelectSeq(audit_events, IsTableComplete))
    /\ \A p \in 1..Len(audit_events) :
          IsTableComplete(audit_events[p]) =>
              audit_events[p].orphaned_count =
                 OrphansAppended(orphaned_records, audit_events[p].table_name)
    /\ \A i \in 1..Len(sent) :
          sent[i].type = "complete" => result_data # NoData

\* the audit found one orphan, whose UPC is on the list: the table's
\* progress reports it, the 'complete' message does not
ExcludedLeftOutOfCompleteWitness ==
    /\ result_data # NoData
    /\ excluded_upcs # {}
    /\ Len(audit_result[3]) = 1
    /\ audit_result[3][1].upc \in excluded_upcs
    /\ result_data.orphaned_records = <<>>
    /\ result_data.total_orphaned = 0
    /\ result_data.tables_checked >= 1
    /\ \E p \in 1..Len(audit_events) :
          IsTableComplete(audit_events[p]) /\ audit_events[p].orphaned_count = 1

(***************************************************************************)
(* C31: the audit in both modes, both matcher strategies and the store     *)
(* comparison only read: no step of a run, successful or failed, changes   *)
(* a detail table once it has been read, the target catalog, the primary   *)
(* or the comparison catalog, or Items_tbl.                                *)
(***************************************************************************)
DatabasesKept ==
    /\ target_catalog' = target_catalog
    /\ \A t \in TableNames : source_db[t] # Unread => source_db'[t] = source_db[t]
    /\ primary_items' = primary_items
    /\ comparison_catalog' = comparison_catalog
    /\ items_tbl' = items_tbl

RunsAreReadOnly == [][DatabasesKept]_vars

\* an audit has returned the orphan records of the tables it read
RunsAreReadOnlyWitness ==
    /\ audit_pc = "returned"
    /\ audit_result[1] = TRUE
    /\ audit_result[3] # <<>>
    /\ \E t \in TableNames : source_db[t].rows # <<>>

(***************************************************************************)
(* C32: the two modes determine the same orphans.  For a target catalog    *)
(* with the contents of the source's own catalog, the records a            *)
(* cross-database audit has appended for a completed table that is not a   *)
(* quotation table name the same (table, primary key, UPC) triples as the  *)
(* same-database chunk queries return for that table, also when rows       *)
(* share a UPC.                                                            *)
(***************************************************************************)
RecordTriple(record) == <<record.table_name, record.primary_key, record.upc>>

\* what the same-database mode returns for a table over all its chunks
SameSourceTriples(name, catalog) ==
    LET rows    == source_db[name].rows
        orphans == JoinQuery(rows, catalog, 0, Len(rows))
    IN  {RecordTriple(JoinOrphanRecord(name, orphans[i])) : i \in 1..Len(orphans)}

CrossSourceTriples(name) ==
    {RecordTriple(orphaned_records[k]) :
        k \in {j \in 1..Len(orphaned_records) : orphaned_records[j].table_name = name}}

ModesDetermineSameOrphans ==
    is_cross_db =>
        \A i \in 1..Len(CrossDbTables) :
            LET name == CrossDbTables[i].name
            IN  IsCompleted(name) =>
                    CrossSourceTriples(name) = SameSourceTriples(name, target_catalog)

(***************************************************************************)
(* C33: in the cross-database audit every orphan record carries the        *)
(* primary key, product id and description of the scanned row it was       *)
(* produced by, so no two records of a table share a primary key, also     *)
(* when several rows of a chunk share an orphaned UPC.                     *)
(***************************************************************************)
\* the k-th record appended for the rows of the chunk comes from the k-th
\* row of the chunk whose normalized UPC is not in the target
ChunkOrphanRows ==
    LET IsOrphanRow33(row) ==
            NormalizedUpc(row.upc) # <<>> /\ NormalizedUpc(row.upc) \notin existing_upcs
    IN  SelectSeq(chunk_rows, IsOrphanRow33)

RecordsCarryOwnRow ==
    /\ (is_cross_db /\ audit_pc = "chunk" /\ a_chunk_num > 0) =>
          LET produced == ChunkOrphanRows
              first    == Len(table_orphans) - Len(produced)
          IN  \A k \in 1..Len(produced) :
                  /\ table_orphans[first + k].primary_key = produced[k].pk
                  /\ table_orphans[first + k].product_id = produced[k].product_id
                  /\ table_orphans[first + k].description
                        = DescriptionOrUnknown(produced[k].description)
    /\ is_cross_db =>
          \A i, j \in 1..Len(orphaned_records) :
              (/\ i # j
               /\ orphaned_records[i].table_name = orphaned_records[j].table_name)
                  => orphaned_records[i].primary_key # orphaned_records[j].primary_key

(***************************************************************************)
(* C34: every orphan record of the list the audit returns belongs to a     *)
(* table for which table_complete was emitted; a table that ended with     *)
(* table_skipped, also after some of its chunks had been classified,       *)
(* contributes no record.                                                  *)
(***************************************************************************)
ReturnedRecordsAreOfCompletedTables ==
    (audit_pc = "returned" /\ audit_result[1] = TRUE) =>
        \A k \in 1..Len(audit_result[3]) :
            IsCompleted(audit_result[3][k].table_name)

(***************************************************************************)
(* C35: a result with success = TRUE means that a row with the given       *)
(* primary key exists in the named table and holds the applied UPC; an     *)
(* update whose primary key matches no row is not reported as a success.   *)
(***************************************************************************)
RowHolds(update, upc) ==
    /\ RowKey(update) \in DOMAIN detail_db
    /\ detail_db[RowKey(update)] = upc

SuccessMeansRowUpdated ==
    /\ upd_pc = "rows" =>
          \A j \in 1..Len(results) :
              results[j].success => RowHolds(Batch[j], results[j].updated_upc)
    /\ \A i \in 1..Len(all_results) :
          all_results[i].success => RowHolds(updates[i], all_results[i].updated_upc)

(***************************************************************************)
(* C36: applying a list of updates changes only the UPC of the rows whose  *)
(* key column, as resolved from the table name, equals a given primary key *)
(* in the named table; every other row is unchanged, and an update         *)
(* reported with success = FALSE has left its row as it was.               *)
(***************************************************************************)
\* a step changes at most the row the current update names, to its UPC
OnlyNamedRowChanges ==
    /\ DOMAIN detail_db' = DOMAIN detail_db
    /\ \A k \in DOMAIN detail_db :
          detail_db'[k] # detail_db[k] =>
              /\ upd_pc = "rows"
              /\ row_idx < Len(Batch)
              /\ k = RowKey(Batch[row_idx + 1])
              /\ detail_db'[k] = Batch[row_idx + 1].items_tbl_upc

FailedUpdateLeftRow ==
    \A i \in 1..Len(all_results) :
        ~all_results[i].success => detail_db[RowKey(updates[i])] = OldUPC

UpdatesChangeOnlyNamedRows ==
    /\ [][OnlyNamedRowChanges]_vars
    /\ []FailedUpdateLeftRow

(***************************************************************************)
(* C37: in every match of either strategy match_found is TRUE exactly when *)
(* items_tbl_upc is not null; a match that was found carries a non-empty   *)
(* UPC, that of a row of Items_tbl whose key (ProductID or                 *)
(* ProductDescription) equals the key of the record; a row of Items_tbl    *)
(* whose UPC is null or empty never makes a match.                         *)
(***************************************************************************)
\* the record a match was made for: the records of a request are numbered
\* by their primary key
RecordOfMatch(m) == m_orphaned_records[m.primary_key]

MatchWellFormed(m) ==
    LET record == RecordOfMatch(m)
        usable == {row \in items_tbl :
                      KeyMatches(row, record) /\ row.ProductUPC \notin {NullUPC, <<>>}}
    IN  /\ record.primary_key = m.primary_key
        /\ record.table_name = m.table_name
        /\ m.match_found = (m.items_tbl_upc # NullUPC)
        /\ m.match_found =>
              /\ m.items_tbl_upc # <<>>
              /\ \E row \in usable : row.ProductUPC = m.items_tbl_upc
        /\ usable = {} => ~m.match_found

MatchFoundIffUpc ==
    /\ \A i \in 1..Len(matches) : MatchWellFormed(matches[i])
    /\ (match_pc = "returned" /\ match_result[1] = TRUE) => match_result[3] = matches

\* a returned request with a match that was found, and with a record whose
\* key is that of a catalog row without a usable UPC and that has no match
MatchFoundIffUpcWitness ==
    /\ match_pc = "returned"
    /\ match_result[1] = TRUE
    /\ \E i, j \in 1..Len(match_result[3]) :
          /\ match_result[3][i].match_found
          /\ match_result[3][i].items_tbl_upc \in {<<1>>, <<2>>}
          /\ ~match_result[3][j].match_found
          /\ match_result[3][j].items_tbl_upc = NullUPC
          /\ \E row \in items_tbl :
                /\ KeyMatches(row, RecordOfMatch(match_result[3][j]))
                /\ HasKey(RecordOfMatch(match_result[3][j]))
                /\ row.ProductUPC \in {NullUPC, <<>>}

(***************************************************************************)
(* C38: when every database call returns and the caller stays connected,   *)
(* a stream eventually emits its terminal message: the worker finishes     *)
(* after finitely many chunks or batches, the polling loop ends once the   *)
(* worker is done, and the drain loop ends because nothing is pushed after *)
(* the worker has finished.                                                *)
(***************************************************************************)
TerminalEmitted ==
    /\ consumer_pc = "closed"
    /\ connected
    /\ future_done
    /\ progress_queue = <<>>
    /\ sent # <<>>
    /\ sent[Len(sent)].type \in {"complete", "error"}

====
